---- MODULE Spec2Model ----
(***************************************************************************)
(* z-Explorer: the generation workflow (core/generator.py), the two        *)
(* process-wide engine slots (llm_provider._model and                      *)
(* image_generator._pipeline) and the server's SSE stream adapter          *)
(* (server.py, _generate_event_stream).                                    *)
(*                                                                         *)
(* A prompt is a sequence of words (the text split at blanks); a word is a *)
(* literal, the enhancement separator ">" or a __name__ token.             *)
(***************************************************************************)
EXTENDS Integers, Sequences, FiniteSets, TLC

\* ------------------------------------------------------------------ bounds
MaxCount == 2
NumWorkers == 2
MaxKeys == 2
MaxProgressCount == 100

\* ------------------------------------------------------- program constants
num_steps == 9

Workers == 1..NumWorkers
MainWorker == CHOOSE w \in Workers : \A v \in Workers : w <= v
\* Optional[int] = None: the seed and the progress are >= 0 when present.
None == -1
NoReturn == "none"

\* ------------------------------------------------------------ environment
Tokens == {"__animal__", "__foo__", "___bar___", "__bar__"}
PromptTexts ==
    { <<"cat">>,
      <<"a", "__animal__">>,
      <<"a", "__foo__">>,
      <<"cat", ">", "magical">> }
RandomSeeds == {3, 4}
ExplicitSeeds == {7}
InitialStore == [t \in {"__animal__"} |-> <<"cat", "dog">>]
EmptyVars == [t \in {} |-> <<>>]
GeneratedValues == <<"v1", "v2">>
EnhancedTexts == {<<"enhanced">>}
\* the diffusion steps after which the pipeline call may raise: before the
\* first step, in mid-diffusion, and when the image is saved
FailureSteps == {0, 1, num_steps}

GenerationRequest ==
    [prompt : PromptTexts, count : 1..MaxCount, seed : {None} \cup ExplicitSeeds,
     enhance : BOOLEAN, enhancement_instruction : {<<>>, <<"vivid">>}]

Requests ==
    {r \in GenerationRequest :
        /\ (r.enhancement_instruction # <<>>) => r.enhance
        /\ r.enhance => r.prompt \in {<<"cat">>, <<"a", "__animal__">>}}

\* LLMConfig and ImageModelConfig, in the fields an override can replace
ModelConfig ==
    [mode : {"hf_download", "hf_local", "gguf", "z_image"},
     hf_repo : {"Qwen/Qwen3-4B", "Tongyi-MAI/Z-Image-Turbo", "custom/repo"},
     hf_local_path : {"", "/models/custom"}]
\* no engine is resident, so no configuration is in use
NoConfig == [mode |-> "", hf_repo |-> "", hf_local_path |-> ""]
\* _override_config is None (or an empty dict: both are falsy)
NoOverrides == [f \in {} |-> ""]

\* get_llm_config(): the environment sets none of the LLM_* variables.
get_llm_config ==
    [mode |-> "z_image", hf_repo |-> "Qwen/Qwen3-4B", hf_local_path |-> ""]

\* get_image_model_config(): the environment sets none of the Z_IMAGE_*
\* variables.
get_image_model_config ==
    [mode |-> "hf_download", hf_repo |-> "Tongyi-MAI/Z-Image-Turbo",
     hf_local_path |-> ""]

\* the request of a worker that has not been given one yet
NoRequest ==
    [prompt |-> <<"cat">>, count |-> 1, seed |-> None, enhance |-> FALSE,
     enhancement_instruction |-> <<>>]

VARIABLES
    llm_model,     \* llm_provider._model is not None
    pipeline,      \* image_generator._pipeline is not None
    store,         \* the library directory: identifier -> values
    pc,            \* each worker's position in generate()
    request,       \* the request each worker runs
    prompt_vars,   \* generate()'s local mapping of variables
    base_prompt, enhancement_instruction, has_enhancement,
    i,             \* loop index of phase 1, then of phase 2
    matches,       \* re.findall matches still to resolve
    current_prompt,
    generated_prompts,
    result,        \* the GenerationResult under construction
    events,        \* every ProgressEvent handed to on_progress, in order
    seed, step,
    ret,           \* where an engine load returns to
    exc,           \* the engine load raised
    fatal,         \* the top-level handler of generate() ran
    attempts,      \* the indexes generate_image was called for, in order
    cpc,           \* each stream's position in _generate_event_stream
    progress_queue,
    frames,        \* the frames the stream has yielded, in order
    task_done,     \* gen_task.done()
    result_holder, error_holder,
    drain_count,
    override_config,  \* model_config._override_config: field -> value
    llm_config,       \* the configuration _model was loaded with
    image_config,     \* the configuration _pipeline was loaded with
    dl_pc,            \* download_all_models: where the call stands
    dl_models,        \* models = get_models_to_download()
    dl_index,         \* the position of the for loop in models
    dl_calls,         \* the calls of download_model_with_progress so far
    dl_all_success,   \* all_success
    dl_return,        \* the value returned
    loads,            \* the engine loads that succeeded in the run so far
    meter             \* the progress of a run: count, image, step, percent

vars == <<llm_model, pipeline, store, pc, request, prompt_vars, base_prompt,
          enhancement_instruction, has_enhancement, i, matches, current_prompt,
          generated_prompts, result, events, seed, step, ret, exc, fatal,
          attempts, cpc, progress_queue, frames, task_done, result_holder,
          error_holder, drain_count, override_config, llm_config,
          image_config, dl_pc, dl_models, dl_index, dl_calls, dl_all_success,
          dl_return, loads, meter>>

text_slot == <<llm_model, llm_config>>
image_slot == <<pipeline, image_config>>
slots == <<text_slot, image_slot>>
download == <<dl_pc, dl_models, dl_index, dl_calls, dl_all_success, dl_return>>
shared == <<store, override_config, download, loads, meter>>
stream == <<cpc, frames, task_done, result_holder, error_holder, drain_count>>
sink == <<events, progress_queue>>
locals == <<request, prompt_vars, base_prompt, enhancement_instruction,
            has_enhancement, i, matches, current_prompt, generated_prompts,
            seed, step, ret, exc, attempts>>

\* ---------------------------------------------------------------- helpers
NoLoads == [text |-> 0, image |-> 0]
NoMeter ==
    [pc |-> "idle", count |-> 1, enhance |-> FALSE, index |-> 0, step |-> 0,
     last |-> 5, pct |-> 5]
NewResult ==
    [success |-> FALSE, images |-> <<>>, final_prompts |-> <<>>,
     errors |-> <<>>, seeds_used |-> <<>>]

ProgressEvent(stage, progress, index) ==
    [stage |-> stage, progress |-> progress, index |-> index]

\* _emit: the event is built and handed to the on_progress callback; the
\* callback of a stream is on_progress of _generate_event_stream, which puts
\* the event on the stream's queue (put_nowait).
Emitted(w, evs) ==
    /\ events' = [events EXCEPT ![w] = @ \o evs]
    /\ progress_queue' = [progress_queue EXCEPT
                            ![w] = IF cpc[w] # "off" THEN @ \o evs ELSE @]

\* pattern __[a-zA-Z0-9_\-/]+__ : the words that are tokens, first to last.
IsToken(word) == word \in Tokens
FindAll(prompt) == SelectSeq(prompt, IsToken)

\* str.replace(match, replacement, 1): the first occurrence only.
RECURSIVE ReplaceFirst(_, _, _)
ReplaceFirst(text, match, replacement) ==
    IF text = <<>> THEN <<>>
    ELSE IF Head(text) = match THEN <<replacement>> \o Tail(text)
    ELSE <<Head(text)>> \o ReplaceFirst(Tail(text), match, replacement)

\* " > " in prompt: a ">" with a word on either side; split(" > ", 1).
SeparatorAt(prompt) ==
    {k \in 2..(Len(prompt) - 1) : prompt[k] = ">"}
HasSeparator(prompt) == SeparatorAt(prompt) # {}
FirstSeparator(prompt) ==
    CHOOSE k \in SeparatorAt(prompt) : \A j \in SeparatorAt(prompt) : k <= j
SplitBase(prompt) == SubSeq(prompt, 1, FirstSeparator(prompt) - 1)
SplitInstruction(prompt) ==
    SubSeq(prompt, FirstSeparator(prompt) + 1, Len(prompt))

\* ------------------------------------------------------------------- Init
Init ==
    /\ llm_model = FALSE
    /\ pipeline = FALSE
    /\ store = InitialStore
    /\ pc = [w \in Workers |-> "idle"]
    /\ request = [w \in Workers |-> NoRequest]
    /\ prompt_vars = [w \in Workers |-> EmptyVars]
    /\ base_prompt = [w \in Workers |-> <<>>]
    /\ enhancement_instruction = [w \in Workers |-> <<>>]
    /\ has_enhancement = [w \in Workers |-> FALSE]
    /\ i = [w \in Workers |-> 0]
    /\ matches = [w \in Workers |-> <<>>]
    /\ current_prompt = [w \in Workers |-> <<>>]
    /\ generated_prompts = [w \in Workers |-> <<>>]
    /\ result = [w \in Workers |-> NewResult]
    /\ events = [w \in Workers |-> <<>>]
    /\ seed = [w \in Workers |-> None]
    /\ step = [w \in Workers |-> 0]
    /\ ret = [w \in Workers |-> NoReturn]
    /\ exc = [w \in Workers |-> FALSE]
    /\ fatal = [w \in Workers |-> FALSE]
    /\ attempts = [w \in Workers |-> <<>>]
    /\ cpc = [w \in Workers |-> "off"]
    /\ progress_queue = [w \in Workers |-> <<>>]
    /\ frames = [w \in Workers |-> <<>>]
    /\ task_done = [w \in Workers |-> FALSE]
    /\ result_holder = [w \in Workers |-> <<>>]
    /\ error_holder = [w \in Workers |-> <<>>]
    /\ drain_count = [w \in Workers |-> 0]
    /\ override_config = NoOverrides
    /\ llm_config = NoConfig
    /\ image_config = NoConfig
    /\ dl_pc = "idle"
    /\ dl_models = <<>>
    /\ dl_index = 0
    /\ dl_calls = <<>>
    /\ dl_all_success = TRUE
    /\ dl_return = FALSE
    /\ loads = [w \in Workers |-> NoLoads]
    /\ meter = NoMeter

\* ------------------------------------------------ generate(): entry, vars
\* generate() is entered: the starting event, then the empty result.
Entered(w, r) ==
    /\ request' = [request EXCEPT ![w] = r]
    /\ events' = [events EXCEPT ![w] = <<ProgressEvent("starting", 5, 0)>>]
    /\ result' = [result EXCEPT ![w] = NewResult]
    /\ fatal' = [fatal EXCEPT ![w] = FALSE]
    /\ attempts' = [attempts EXCEPT ![w] = <<>>]
    /\ pc' = [pc EXCEPT ![w] = "load_vars"]
    /\ loads' = [loads EXCEPT ![w] = NoLoads]
    /\ UNCHANGED <<slots, store, override_config, download, meter,
                   prompt_vars, base_prompt,
                   enhancement_instruction, has_enhancement, i, matches,
                   current_prompt, generated_prompts, seed, step, ret, exc>>

\* a direct caller (the tests, a script) calls generate(request, sink).
StartWith(w, reqs) ==
    /\ pc[w] = "idle"
    /\ cpc[w] = "off"
    /\ \E r \in reqs : Entered(w, r)
    /\ UNCHANGED <<stream, progress_queue>>

Start(w) == StartWith(w, Requests)

TopLevelHandlerSilent(w, message) ==
    /\ result' = [result EXCEPT ![w].errors = Append(@, message)]
    /\ UNCHANGED sink
    /\ fatal' = [fatal EXCEPT ![w] = TRUE]
    /\ pc' = [pc EXCEPT ![w] = "returned"]

\* except Exception as e: the message is appended to errors, one error event
\* is emitted, and generate() returns the result as it stands.
TopLevelHandler(w, message) ==
    /\ result' = [result EXCEPT ![w].errors = Append(@, message)]
    /\ Emitted(w, <<ProgressEvent("error", None, 0)>>)
    /\ fatal' = [fatal EXCEPT ![w] = TRUE]
    /\ pc' = [pc EXCEPT ![w] = "returned"]

\* load_prompt_vars() succeeds; the " > " syntax is parsed; phase 1 begins.
LoadVars(w) ==
    /\ pc[w] = "load_vars"
    /\ prompt_vars' = [prompt_vars EXCEPT ![w] = store]
    /\ LET p == request[w].prompt IN
        IF HasSeparator(p)
        THEN /\ base_prompt' = [base_prompt EXCEPT ![w] = SplitBase(p)]
             /\ enhancement_instruction' =
                    [enhancement_instruction EXCEPT ![w] = SplitInstruction(p)]
             /\ has_enhancement' = [has_enhancement EXCEPT ![w] = TRUE]
        ELSE /\ base_prompt' = [base_prompt EXCEPT ![w] = p]
             /\ enhancement_instruction' =
                    [enhancement_instruction EXCEPT
                        ![w] = request[w].enhancement_instruction]
             /\ has_enhancement' =
                    [has_enhancement EXCEPT ![w] = request[w].enhance]
    /\ Emitted(w, <<ProgressEvent("loading_vars", 10, 0),
                    ProgressEvent("phase1_complete", 15, 0)>>)
    /\ generated_prompts' = [generated_prompts EXCEPT ![w] = <<>>]
    /\ i' = [i EXCEPT ![w] = 0]
    /\ pc' = [pc EXCEPT ![w] = "p1_iter"]
    /\ UNCHANGED <<stream, slots, shared, request, matches, current_prompt, result,
                   seed, step, ret, exc, fatal, attempts>>

\* load_prompt_vars() raises: the exception reaches the top-level handler.
LoadVarsRaises(w) ==
    /\ pc[w] = "load_vars"
    /\ TopLevelHandler(w, "store unreadable")
    /\ UNCHANGED <<stream, slots, shared, locals>>

\* ------------------------------------------- text engine: _load_model()
\* if _model is not None: return _model, _tokenizer
LoadModelCheck(w) ==
    /\ pc[w] = "lm_check"
    /\ pc' = [pc EXCEPT ![w] = IF llm_model THEN ret[w] ELSE "lm_unload_other"]
    /\ UNCHANGED <<stream, slots, shared, locals, result, sink, fatal>>

\* if image_generator._pipeline is not None: image_generator.unload_pipeline()
LoadModelUnloadOther(w) ==
    /\ pc[w] = "lm_unload_other"
    /\ pipeline' = FALSE
    /\ image_config' = NoConfig
    /\ pc' = [pc EXCEPT ![w] = "lm_load"]
    /\ UNCHANGED <<stream, text_slot, shared, locals, result, sink, fatal>>

\* the configured loader runs and its value is assigned to _model.
LoadModelAssign(w) ==
    /\ pc[w] = "lm_load"
    /\ llm_model' = TRUE
    /\ llm_config' = get_llm_config
    /\ pc' = [pc EXCEPT ![w] = ret[w]]
    /\ loads' = [loads EXCEPT ![w].text = @ + 1]
    /\ UNCHANGED <<stream, image_slot, store, override_config, download,
                   meter, locals, result, sink, fatal>>

\* the configuration is invalid or the loader raises: _model stays None.
LoadModelRaises(w) ==
    /\ pc[w] = "lm_load"
    /\ exc' = [exc EXCEPT ![w] = TRUE]
    /\ pc' = [pc EXCEPT ![w] = ret[w]]
    /\ UNCHANGED <<stream, slots, shared, request, prompt_vars, base_prompt,
                   enhancement_instruction, has_enhancement, i, matches,
                   current_prompt, generated_prompts, seed, step, ret,
                   attempts, result, sink, fatal>>

\* unload_model(): if _model is not None, the slot is cleared.
unload_model == llm_model' = FALSE /\ llm_config' = NoConfig

\* unload_pipeline(): if _pipeline is not None, the slot is cleared.
unload_pipeline == pipeline' = FALSE /\ image_config' = NoConfig

\* ------------------------------------------------- phase 1: one prompt
\* for i in range(request.count): _substitute_variables(base_prompt, ...)
\* starts with re.findall over the base prompt.
Phase1Iteration(w) ==
    /\ pc[w] = "p1_iter"
    /\ i[w] < request[w].count
    /\ current_prompt' = [current_prompt EXCEPT ![w] = base_prompt[w]]
    /\ matches' = [matches EXCEPT ![w] = FindAll(base_prompt[w])]
    /\ pc' = [pc EXCEPT ![w] = "subst"]
    /\ UNCHANGED <<stream, slots, shared, request, prompt_vars, base_prompt,
                   enhancement_instruction, has_enhancement, i,
                   generated_prompts, seed, step, ret, exc, attempts, result,
                   sink, fatal>>

\* if match in prompt_vars: a random value replaces the first occurrence
\* (nothing happens when the value list is empty).
SubstituteKnown(w) ==
    /\ pc[w] = "subst"
    /\ matches[w] # <<>>
    /\ LET match == Head(matches[w]) IN
        /\ match \in DOMAIN prompt_vars[w]
        /\ IF prompt_vars[w][match] # <<>>
           THEN \E k \in DOMAIN prompt_vars[w][match] :
                /\ current_prompt' =
                       [current_prompt EXCEPT
                           ![w] = ReplaceFirst(@, match, prompt_vars[w][match][k])]
                /\ Emitted(w, <<ProgressEvent("substituting", None, 0)>>)
           ELSE UNCHANGED <<stream, current_prompt, sink>>
    /\ matches' = [matches EXCEPT ![w] = Tail(@)]
    /\ UNCHANGED <<stream, slots, shared, pc, request, prompt_vars, base_prompt,
                   enhancement_instruction, has_enhancement, i,
                   generated_prompts, seed, step, ret, exc, attempts, result,
                   fatal>>

\* elif generate_missing: var_missing and var_generating are emitted and the
\* text engine is asked for values (generate_text loads the model first).
SubstituteMissing(w) ==
    /\ pc[w] = "subst"
    /\ matches[w] # <<>>
    /\ Head(matches[w]) \notin DOMAIN prompt_vars[w]
    /\ Emitted(w, <<ProgressEvent("var_missing", None, 0),
                    ProgressEvent("var_generating", None, 0)>>)
    /\ ret' = [ret EXCEPT ![w] = "gen_values"]
    /\ pc' = [pc EXCEPT ![w] = "lm_check"]
    /\ UNCHANGED <<stream, slots, shared, request, prompt_vars, base_prompt,
                   enhancement_instruction, has_enhancement, i, matches,
                   current_prompt, generated_prompts, seed, step, exc,
                   attempts, result, fatal>>

\* dict.update(load_prompt_vars()): the stored variables override the local.
Updated(local, loaded) ==
    [t \in (DOMAIN local) \cup (DOMAIN loaded) |->
        IF t \in DOMAIN loaded THEN loaded[t] ELSE local[t]]

\* the characters of an identifier: each underscore, and the rest in one
Spelling ==
    [t \in Tokens |->
        CASE t = "__animal__" -> <<"_", "_", "animal", "_", "_">>
          [] t = "__foo__" -> <<"_", "_", "foo", "_", "_">>
          [] t = "___bar___" -> <<"_", "_", "_", "bar", "_", "_", "_">>
          [] t = "__bar__" -> <<"_", "_", "bar", "_", "_">>]

RECURSIVE LStrip(_)
LStrip(chars) ==
    IF chars # <<>> /\ Head(chars) = "_" THEN LStrip(Tail(chars)) ELSE chars
RECURSIVE RStrip(_)
RStrip(chars) ==
    IF chars # <<>> /\ chars[Len(chars)] = "_"
    THEN RStrip(SubSeq(chars, 1, Len(chars) - 1))
    ELSE chars

\* raw_name = match.strip('_'): every leading and trailing underscore goes.
RawName(match) == RStrip(LStrip(Spelling[match]))

\* load_prompt_vars: the key of the file <name>.md is "__<name>__".
PromptId(name) ==
    CHOOSE t \in Tokens : Spelling[t] = <<"_", "_">> \o name \o <<"_", "_">>

\* the lines load_prompt_vars keeps as values: blank lines are dropped and
\* the lines that start with "#" are the description.
IsValueLine(line) == line \notin {"", "#"}

\* save_prompt_var(raw_name, ...) writes the file <raw_name>.md; the library
\* that load_prompt_vars reads afterwards has its lines under "__<raw_name>__".
Saved(library, match, values) ==
    LET prompt_id == PromptId(RawName(match)) IN
    [t \in (DOMAIN library) \cup {prompt_id} |->
        IF t = prompt_id THEN SelectSeq(values, IsValueLine) ELSE library[t]]

GenerateValuesAnnouncesLate(w) ==
    /\ pc[w] = "gen_values"
    /\ ~exc[w]
    /\ LET match == Head(matches[w])
           library == Saved(store, match, GeneratedValues) IN
        /\ store' = library
        /\ UNCHANGED <<override_config, download, loads, meter>>
        /\ \E k \in DOMAIN GeneratedValues :
            current_prompt' =
                [current_prompt EXCEPT
                    ![w] = ReplaceFirst(@, match, GeneratedValues[k])]
        /\ prompt_vars' = [prompt_vars EXCEPT ![w] = Updated(@, library)]
    /\ Emitted(w, <<ProgressEvent("substituting", None, 0),
                    ProgressEvent("var_saved", None, 0)>>)
    /\ matches' = [matches EXCEPT ![w] = Tail(@)]
    /\ pc' = [pc EXCEPT ![w] = "subst"]
    /\ UNCHANGED <<stream, slots, request, base_prompt, enhancement_instruction,
                   has_enhancement, i, generated_prompts, seed, step, ret,
                   exc, attempts, result, fatal>>

\* generate_prompt_variable_values returned values: var_saved, the save, the
\* substitution of a random value, and the reload of the mapping.
GenerateValues(w) ==
    /\ pc[w] = "gen_values"
    /\ ~exc[w]
    /\ LET match == Head(matches[w])
           library == Saved(store, match, GeneratedValues) IN
        /\ store' = library
        /\ UNCHANGED <<override_config, download, loads, meter>>
        /\ \E k \in DOMAIN GeneratedValues :
            current_prompt' =
                [current_prompt EXCEPT
                    ![w] = ReplaceFirst(@, match, GeneratedValues[k])]
        /\ prompt_vars' = [prompt_vars EXCEPT ![w] = Updated(@, library)]
    /\ Emitted(w, <<ProgressEvent("var_saved", None, 0),
                    ProgressEvent("substituting", None, 0)>>)
    /\ matches' = [matches EXCEPT ![w] = Tail(@)]
    /\ pc' = [pc EXCEPT ![w] = "subst"]
    /\ UNCHANGED <<stream, slots, request, base_prompt, enhancement_instruction,
                   has_enhancement, i, generated_prompts, seed, step, ret,
                   exc, attempts, result, fatal>>

\* the engine returned no values: nothing is saved, nothing is emitted, the
\* token stays in the prompt.
GenerateValuesEmpty(w) ==
    /\ pc[w] = "gen_values"
    /\ ~exc[w]
    /\ matches' = [matches EXCEPT ![w] = Tail(@)]
    /\ pc' = [pc EXCEPT ![w] = "subst"]
    /\ UNCHANGED <<stream, slots, shared, request, prompt_vars, base_prompt,
                   enhancement_instruction, has_enhancement, i,
                   current_prompt, generated_prompts, seed, step, ret, exc,
                   attempts, result, sink, fatal>>

\* the load or the generation raised: except Exception emits an error event
\* (result.errors is not touched) and the loop goes on.
GenerateValuesRaises(w) ==
    /\ pc[w] = "gen_values"
    /\ Emitted(w, <<ProgressEvent("error", None, 0)>>)
    /\ exc' = [exc EXCEPT ![w] = FALSE]
    /\ matches' = [matches EXCEPT ![w] = Tail(@)]
    /\ pc' = [pc EXCEPT ![w] = "subst"]
    /\ UNCHANGED <<stream, slots, shared, request, prompt_vars, base_prompt,
                   enhancement_instruction, has_enhancement, i,
                   current_prompt, generated_prompts, seed, step, ret,
                   attempts, result, fatal>>

\* values came back but save_prompt_var (or the reload) raises: var_saved was
\* already emitted, the except branch emits an error event.
GenerateValuesSaveRaises(w) ==
    /\ pc[w] = "gen_values"
    /\ ~exc[w]
    /\ Emitted(w, <<ProgressEvent("var_saved", None, 0),
                    ProgressEvent("error", None, 0)>>)
    /\ matches' = [matches EXCEPT ![w] = Tail(@)]
    /\ pc' = [pc EXCEPT ![w] = "subst"]
    /\ UNCHANGED <<stream, slots, shared, request, prompt_vars, base_prompt,
                   enhancement_instruction, has_enhancement, i,
                   current_prompt, generated_prompts, seed, step, ret, exc,
                   attempts, result, fatal>>

\* full_prompt: the directive is appended when the instruction is not empty.
FullPrompt(prompt, instruction) ==
    IF instruction # <<>>
    THEN prompt \o <<"Enhancement instruction:">> \o instruction
    ELSE prompt

\* _substitute_variables returned; if i == 0 the mapping is reloaded; then
\* either the enhancement starts (enhancing is emitted and the text engine is
\* called) or the prompt is appended to generated_prompts.
SubstituteDone(w) ==
    /\ pc[w] = "subst"
    /\ matches[w] = <<>>
    /\ prompt_vars' =
           [prompt_vars EXCEPT ![w] = IF i[w] = 0 THEN store ELSE @]
    /\ IF has_enhancement[w]
       THEN /\ current_prompt' =
                   [current_prompt EXCEPT
                       ![w] = FullPrompt(@, enhancement_instruction[w])]
            /\ Emitted(w, <<ProgressEvent("enhancing", None, 0)>>)
            /\ ret' = [ret EXCEPT ![w] = "enhance"]
            /\ pc' = [pc EXCEPT ![w] = "lm_check"]
            /\ UNCHANGED <<stream, generated_prompts, i>>
       ELSE /\ generated_prompts' =
                   [generated_prompts EXCEPT ![w] = Append(@, current_prompt[w])]
            /\ i' = [i EXCEPT ![w] = @ + 1]
            /\ pc' = [pc EXCEPT ![w] = "p1_iter"]
            /\ UNCHANGED <<stream, current_prompt, sink, ret>>
    /\ UNCHANGED <<stream, slots, shared, request, base_prompt,
                   enhancement_instruction, has_enhancement, matches, seed,
                   step, exc, attempts, result, fatal>>

\* the reload after the first iteration raises: top-level handler.
ReloadVarsRaises(w) ==
    /\ pc[w] = "subst"
    /\ matches[w] = <<>>
    /\ i[w] = 0
    /\ TopLevelHandler(w, "store unreadable")
    /\ UNCHANGED <<stream, slots, shared, locals>>

\* enhance_prompt returned: enhanced is emitted, the text is carried forward.
Enhance(w) ==
    /\ pc[w] = "enhance"
    /\ ~exc[w]
    /\ \E enhanced \in EnhancedTexts :
        generated_prompts' =
            [generated_prompts EXCEPT ![w] = Append(@, enhanced)]
    /\ Emitted(w, <<ProgressEvent("enhanced", None, 0)>>)
    /\ i' = [i EXCEPT ![w] = @ + 1]
    /\ pc' = [pc EXCEPT ![w] = "p1_iter"]
    /\ UNCHANGED <<stream, slots, shared, request, prompt_vars, base_prompt,
                   enhancement_instruction, has_enhancement, matches,
                   current_prompt, seed, step, ret, exc, attempts, result,
                   fatal>>

EnhanceRaisesDropsPrompt(w) ==
    /\ pc[w] = "enhance"
    /\ Emitted(w, <<ProgressEvent("error", None, 0)>>)
    /\ exc' = [exc EXCEPT ![w] = FALSE]
    /\ i' = [i EXCEPT ![w] = @ + 1]
    /\ pc' = [pc EXCEPT ![w] = "p1_iter"]
    /\ UNCHANGED <<stream, slots, shared, request, prompt_vars, base_prompt,
                   enhancement_instruction, has_enhancement, matches,
                   current_prompt, generated_prompts, seed, step, ret,
                   attempts, result, fatal>>

\* the load or the generation raised: an error event, and the prompt that
\* was passed in (full_prompt) is carried forward.
EnhanceRaises(w) ==
    /\ pc[w] = "enhance"
    /\ generated_prompts' =
           [generated_prompts EXCEPT ![w] = Append(@, current_prompt[w])]
    /\ Emitted(w, <<ProgressEvent("error", None, 0)>>)
    /\ exc' = [exc EXCEPT ![w] = FALSE]
    /\ i' = [i EXCEPT ![w] = @ + 1]
    /\ pc' = [pc EXCEPT ![w] = "p1_iter"]
    /\ UNCHANGED <<stream, slots, shared, request, prompt_vars, base_prompt,
                   enhancement_instruction, has_enhancement, matches,
                   current_prompt, seed, step, ret, attempts, result, fatal>>

Phase1DoneAlwaysUnloads(w) ==
    /\ pc[w] = "p1_iter"
    /\ i[w] = request[w].count
    /\ result' = [result EXCEPT ![w].final_prompts = generated_prompts[w]]
    /\ unload_model
    /\ Emitted(w, <<ProgressEvent("llm_unloaded", 35, 0),
                    ProgressEvent("loading_image_model", 40, 0)>>)
    /\ i' = [i EXCEPT ![w] = 0]
    /\ pc' = [pc EXCEPT ![w] = "p2_iter"]
    /\ UNCHANGED <<stream, image_slot, shared, request, prompt_vars, base_prompt,
                   enhancement_instruction, has_enhancement, matches,
                   current_prompt, generated_prompts, seed, step, ret, exc,
                   attempts, fatal>>

\* the loop of phase 1 is over: final_prompts is set, the text engine is
\* unloaded when count > 1 or enhancement was used, phase 2 is announced.
Phase1Done(w) ==
    /\ pc[w] = "p1_iter"
    /\ i[w] = request[w].count
    /\ result' = [result EXCEPT ![w].final_prompts = generated_prompts[w]]
    /\ IF request[w].count > 1 \/ has_enhancement[w]
       THEN /\ unload_model
            /\ Emitted(w, <<ProgressEvent("llm_unloaded", 35, 0),
                            ProgressEvent("loading_image_model", 40, 0)>>)
       ELSE /\ UNCHANGED text_slot
            /\ Emitted(w, <<ProgressEvent("loading_image_model", 40, 0)>>)
    /\ i' = [i EXCEPT ![w] = 0]
    /\ pc' = [pc EXCEPT ![w] = "p2_iter"]
    /\ UNCHANGED <<stream, image_slot, shared, request, prompt_vars, base_prompt,
                   enhancement_instruction, has_enhancement, matches,
                   current_prompt, generated_prompts, seed, step, ret, exc,
                   attempts, fatal>>

\* ------------------------------------------------- phase 2: one image
\* the (i, count) with count <= 100 whose double product (i / count) * 55
\* lies just below the integer 55 * i / count (the quotient i / count is
\* rounded down to the nearest double), so that int() gives one less
TruncatedBelow ==
    { <<3, 11>>, <<6, 11>>, <<6, 22>>, <<12, 22>>, <<9, 33>>, <<18, 33>>,
      <<12, 44>>, <<24, 44>>, <<7, 55>>, <<14, 55>>, <<15, 55>>, <<28, 55>>,
      <<29, 55>>, <<30, 55>>, <<31, 55>>, <<18, 66>>, <<36, 66>>, <<21, 77>>,
      <<42, 77>>, <<24, 88>>, <<48, 88>>, <<27, 99>>, <<54, 99>> }

\* int((i / count) * 55) in double arithmetic
IntOfShare(index, count) ==
    ((index * 55) \div count)
        - (IF <<index, count>> \in TruncatedBelow THEN 1 ELSE 0)

\* base_pct = 40 + int((i / count) * 55); per_image_range = 55 // max(count, 1);
\* step_pct = base_pct + int((step / total) * per_image_range), where the
\* double product truncates to the integer quotient for total = 9.
BasePct(index, count) == 40 + IntOfShare(index, count)
PerImageRange(count) == 55 \div count
StepPct(index, count, s, total) ==
    BasePct(index, count) + ((s * PerImageRange(count)) \div total)

Phase2IterationSeedPerIndex(w) ==
    /\ pc[w] = "p2_iter"
    /\ i[w] < Len(generated_prompts[w])
    /\ LET pct == BasePct(i[w], request[w].count) IN
        Emitted(w, <<ProgressEvent("final_prompt", pct, i[w] + 1),
                     ProgressEvent("generating_image", pct, i[w] + 1)>>)
    /\ \E s \in (IF request[w].seed # None THEN {request[w].seed + i[w]}
                 ELSE RandomSeeds) :
        seed' = [seed EXCEPT ![w] = s]
    /\ attempts' = [attempts EXCEPT ![w] = Append(@, i[w] + 1)]
    /\ step' = [step EXCEPT ![w] = 0]
    /\ ret' = [ret EXCEPT ![w] = "diffuse"]
    /\ pc' = [pc EXCEPT ![w] = "lp_check"]
    /\ UNCHANGED <<stream, slots, shared, request, prompt_vars, base_prompt,
                   enhancement_instruction, has_enhancement, i, matches,
                   current_prompt, generated_prompts, exc, result, fatal>>

\* for i, prompt in enumerate(generated_prompts): final_prompt and
\* generating_image are emitted, the seed is determined, generate_image is
\* called (it loads the pipeline first).
Phase2Iteration(w) ==
    /\ pc[w] = "p2_iter"
    /\ i[w] < Len(generated_prompts[w])
    /\ LET pct == BasePct(i[w], request[w].count) IN
        Emitted(w, <<ProgressEvent("final_prompt", pct, i[w] + 1),
                     ProgressEvent("generating_image", pct, i[w] + 1)>>)
    /\ \E s \in (IF request[w].seed # None THEN {request[w].seed}
                 ELSE RandomSeeds) :
        seed' = [seed EXCEPT ![w] = s]
    /\ attempts' = [attempts EXCEPT ![w] = Append(@, i[w] + 1)]
    /\ step' = [step EXCEPT ![w] = 0]
    /\ ret' = [ret EXCEPT ![w] = "diffuse"]
    /\ pc' = [pc EXCEPT ![w] = "lp_check"]
    /\ UNCHANGED <<stream, slots, shared, request, prompt_vars, base_prompt,
                   enhancement_instruction, has_enhancement, i, matches,
                   current_prompt, generated_prompts, exc, result, fatal>>

\* ----------------------------------------- image engine: _load_pipeline()
LoadPipelineCheckAlwaysLoads(w) ==
    /\ pc[w] = "lp_check"
    /\ pc' = [pc EXCEPT ![w] = "lp_unload_other"]
    /\ UNCHANGED <<stream, slots, shared, locals, result, sink, fatal>>

\* if _pipeline is not None: return _pipeline
LoadPipelineCheck(w) ==
    /\ pc[w] = "lp_check"
    /\ pc' = [pc EXCEPT ![w] = IF pipeline THEN ret[w] ELSE "lp_unload_other"]
    /\ UNCHANGED <<stream, slots, shared, locals, result, sink, fatal>>

LoadPipelineKeepsOther(w) ==
    /\ pc[w] = "lp_unload_other"
    /\ pc' = [pc EXCEPT ![w] = "lp_load"]
    /\ UNCHANGED <<stream, text_slot, image_slot, shared, locals, result, sink, fatal>>

\* _unload_llm_if_needed(): if llm_provider._model is not None: unload_model()
LoadPipelineUnloadOther(w) ==
    /\ pc[w] = "lp_unload_other"
    /\ unload_model
    /\ pc' = [pc EXCEPT ![w] = "lp_load"]
    /\ UNCHANGED <<stream, image_slot, shared, locals, result, sink, fatal>>

\* the configured loader runs and its value is assigned to _pipeline.
LoadPipelineAssign(w) ==
    /\ pc[w] = "lp_load"
    /\ pipeline' = TRUE
    /\ image_config' = get_image_model_config
    /\ pc' = [pc EXCEPT ![w] = ret[w]]
    /\ loads' = [loads EXCEPT ![w].image = @ + 1]
    /\ UNCHANGED <<stream, text_slot, store, override_config, download,
                   meter, locals, result, sink, fatal>>

\* the configuration is invalid or the loader raises: _pipeline stays None.
LoadPipelineRaises(w) ==
    /\ pc[w] = "lp_load"
    /\ exc' = [exc EXCEPT ![w] = TRUE]
    /\ pc' = [pc EXCEPT ![w] = ret[w]]
    /\ UNCHANGED <<stream, slots, shared, request, prompt_vars, base_prompt,
                   enhancement_instruction, has_enhancement, i, matches,
                   current_prompt, generated_prompts, seed, step, ret,
                   attempts, result, sink, fatal>>

\* step_callback -> step_progress(step + 1, num_steps): one diffusion_step.
DiffusionStep(w) ==
    /\ pc[w] = "diffuse"
    /\ ~exc[w]
    /\ step[w] < num_steps
    /\ step' = [step EXCEPT ![w] = @ + 1]
    /\ Emitted(w, <<ProgressEvent("diffusion_step",
                        StepPct(i[w], request[w].count, step[w] + 1, num_steps),
                        i[w] + 1)>>)
    /\ UNCHANGED <<stream, slots, shared, pc, request, prompt_vars, base_prompt,
                   enhancement_instruction, has_enhancement, i, matches,
                   current_prompt, generated_prompts, seed, ret, exc,
                   attempts, result, fatal>>

ImageSavedResumesPhase1(w) ==
    /\ pc[w] = "diffuse"
    /\ ~exc[w]
    /\ step[w] = num_steps
    /\ LET prompt == generated_prompts[w][i[w] + 1]
           path == [prompt |-> prompt, seed |-> seed[w], index |-> i[w] + 1] IN
        result' = [result EXCEPT ![w].images = Append(@, path),
                                 ![w].seeds_used = Append(@, seed[w])]
    /\ Emitted(w, <<ProgressEvent("image_saved",
                        BasePct(i[w], request[w].count)
                            + PerImageRange(request[w].count),
                        i[w] + 1)>>)
    /\ matches' = [matches EXCEPT ![w] = FindAll(base_prompt[w])]
    /\ pc' = [pc EXCEPT ![w] = "subst"]
    /\ UNCHANGED <<stream, slots, shared, request, prompt_vars, base_prompt,
                   enhancement_instruction, has_enhancement, i,
                   current_prompt, generated_prompts, seed, step, ret, exc,
                   attempts, fatal>>

ImageSavedRecordsRequestSeed(w) ==
    /\ pc[w] = "diffuse"
    /\ ~exc[w]
    /\ step[w] = num_steps
    /\ LET prompt == generated_prompts[w][i[w] + 1]
           path == [prompt |-> prompt, seed |-> seed[w], index |-> i[w] + 1] IN
        result' = [result EXCEPT ![w].images = Append(@, path),
                                 ![w].seeds_used = Append(@, request[w].seed)]
    /\ Emitted(w, <<ProgressEvent("image_saved",
                        BasePct(i[w], request[w].count)
                            + PerImageRange(request[w].count),
                        i[w] + 1)>>)
    /\ i' = [i EXCEPT ![w] = @ + 1]
    /\ pc' = [pc EXCEPT ![w] = "p2_iter"]
    /\ UNCHANGED <<stream, slots, shared, request, prompt_vars, base_prompt,
                   enhancement_instruction, has_enhancement, matches,
                   current_prompt, generated_prompts, seed, step, ret, exc,
                   attempts, fatal>>

\* generate_image returned (image, path): the path and the seed are appended
\* and image_saved is emitted.
ImageSaved(w) ==
    /\ pc[w] = "diffuse"
    /\ ~exc[w]
    /\ step[w] = num_steps
    /\ LET prompt == generated_prompts[w][i[w] + 1]
           path == [prompt |-> prompt, seed |-> seed[w], index |-> i[w] + 1] IN
        result' = [result EXCEPT ![w].images = Append(@, path),
                                 ![w].seeds_used = Append(@, seed[w])]
    /\ Emitted(w, <<ProgressEvent("image_saved",
                        BasePct(i[w], request[w].count)
                            + PerImageRange(request[w].count),
                        i[w] + 1)>>)
    /\ i' = [i EXCEPT ![w] = @ + 1]
    /\ pc' = [pc EXCEPT ![w] = "p2_iter"]
    /\ UNCHANGED <<stream, slots, shared, request, prompt_vars, base_prompt,
                   enhancement_instruction, has_enhancement, matches,
                   current_prompt, generated_prompts, seed, step, ret, exc,
                   attempts, fatal>>

ImageFailedAborts(w) ==
    /\ pc[w] = "diffuse"
    /\ exc[w] \/ step[w] \in FailureSteps
    /\ result' = [result EXCEPT
                    ![w].errors = Append(@, <<"Image failed", i[w] + 1>>)]
    /\ Emitted(w, <<ProgressEvent("error", None, i[w] + 1)>>)
    /\ exc' = [exc EXCEPT ![w] = FALSE]
    /\ i' = [i EXCEPT ![w] = Len(generated_prompts[w])]
    /\ pc' = [pc EXCEPT ![w] = "p2_iter"]
    /\ UNCHANGED <<stream, slots, shared, request, prompt_vars, base_prompt,
                   enhancement_instruction, has_enhancement, matches,
                   current_prompt, generated_prompts, seed, step, ret,
                   attempts, fatal>>

ImageFailedKeepsSeed(w) ==
    /\ pc[w] = "diffuse"
    /\ exc[w] \/ step[w] \in FailureSteps
    /\ result' = [result EXCEPT
                    ![w].errors = Append(@, <<"Image failed", i[w] + 1>>),
                    ![w].seeds_used = Append(@, seed[w])]
    /\ Emitted(w, <<ProgressEvent("error", None, i[w] + 1)>>)
    /\ exc' = [exc EXCEPT ![w] = FALSE]
    /\ i' = [i EXCEPT ![w] = @ + 1]
    /\ pc' = [pc EXCEPT ![w] = "p2_iter"]
    /\ UNCHANGED <<stream, slots, shared, request, prompt_vars, base_prompt,
                   enhancement_instruction, has_enhancement, matches,
                   current_prompt, generated_prompts, seed, step, ret,
                   attempts, fatal>>

\* generate_image raised (the load, the pipeline call or the save): the
\* error names the image, an error event is emitted, the loop goes on.
ImageFailed(w) ==
    /\ pc[w] = "diffuse"
    /\ exc[w] \/ step[w] \in FailureSteps
    /\ result' = [result EXCEPT
                    ![w].errors = Append(@, <<"Image failed", i[w] + 1>>)]
    /\ Emitted(w, <<ProgressEvent("error", None, i[w] + 1)>>)
    /\ exc' = [exc EXCEPT ![w] = FALSE]
    /\ i' = [i EXCEPT ![w] = @ + 1]
    /\ pc' = [pc EXCEPT ![w] = "p2_iter"]
    /\ UNCHANGED <<stream, slots, shared, request, prompt_vars, base_prompt,
                   enhancement_instruction, has_enhancement, matches,
                   current_prompt, generated_prompts, seed, step, ret,
                   attempts, fatal>>

CompleteSilent(w) ==
    /\ pc[w] = "p2_iter"
    /\ i[w] = Len(generated_prompts[w])
    /\ result' = [result EXCEPT ![w].success = Len(result[w].images) > 0]
    /\ UNCHANGED sink
    /\ pc' = [pc EXCEPT ![w] = "returned"]
    /\ UNCHANGED <<stream, slots, shared, locals, fatal>>

\* after the loop: success = len(result.images) > 0, complete is emitted and
\* the result is returned.
Complete(w) ==
    /\ pc[w] = "p2_iter"
    /\ i[w] = Len(generated_prompts[w])
    /\ result' = [result EXCEPT ![w].success = Len(result[w].images) > 0]
    /\ Emitted(w, <<ProgressEvent("complete", 100, 0)>>)
    /\ pc' = [pc EXCEPT ![w] = "returned"]
    /\ UNCHANGED <<stream, slots, shared, locals, fatal>>

\* the caller has the result and generate()'s frame is gone; the next
\* request may come.
Return(w) ==
    /\ pc[w] = "returned"
    /\ cpc[w] = "off"
    /\ pc' = [pc EXCEPT ![w] = "idle"]
    /\ request' = [request EXCEPT ![w] = NoRequest]
    /\ prompt_vars' = [prompt_vars EXCEPT ![w] = EmptyVars]
    /\ base_prompt' = [base_prompt EXCEPT ![w] = <<>>]
    /\ enhancement_instruction' = [enhancement_instruction EXCEPT ![w] = <<>>]
    /\ has_enhancement' = [has_enhancement EXCEPT ![w] = FALSE]
    /\ i' = [i EXCEPT ![w] = 0]
    /\ matches' = [matches EXCEPT ![w] = <<>>]
    /\ current_prompt' = [current_prompt EXCEPT ![w] = <<>>]
    /\ generated_prompts' = [generated_prompts EXCEPT ![w] = <<>>]
    /\ result' = [result EXCEPT ![w] = NewResult]
    /\ events' = [events EXCEPT ![w] = <<>>]
    /\ progress_queue' = [progress_queue EXCEPT ![w] = <<>>]
    /\ seed' = [seed EXCEPT ![w] = None]
    /\ step' = [step EXCEPT ![w] = 0]
    /\ ret' = [ret EXCEPT ![w] = NoReturn]
    /\ exc' = [exc EXCEPT ![w] = FALSE]
    /\ fatal' = [fatal EXCEPT ![w] = FALSE]
    /\ attempts' = [attempts EXCEPT ![w] = <<>>]
    /\ loads' = [loads EXCEPT ![w] = NoLoads]
    /\ UNCHANGED <<stream, slots, store, override_config, download, meter>>

\* the worker is inside _load_model() or _load_pipeline()
InEngineLoad(w) ==
    pc[w] \in {"lm_check", "lm_unload_other", "lm_load",
               "lp_check", "lp_unload_other", "lp_load"}

\* POST /api/unload: unload_model() then unload_pipeline().
unload_models ==
    /\ \A w \in Workers : ~InEngineLoad(w)
    /\ unload_model
    /\ unload_pipeline
    /\ UNCHANGED <<stream, shared, pc, locals, result, sink, fatal>>

\* ----------------------------------------------------------- generate()
generate(w) ==
    \/ LoadVars(w) \/ LoadVarsRaises(w)
    \/ Phase1Iteration(w) \/ SubstituteKnown(w) \/ SubstituteMissing(w)
    \/ GenerateValues(w) \/ GenerateValuesEmpty(w) \/ GenerateValuesRaises(w)
    \/ GenerateValuesSaveRaises(w)
    \/ SubstituteDone(w) \/ ReloadVarsRaises(w)
    \/ Enhance(w) \/ EnhanceRaises(w)
    \/ Phase1Done(w) \/ Phase2Iteration(w)
    \/ DiffusionStep(w) \/ ImageSaved(w) \/ ImageFailed(w)
    \/ Complete(w)

LoadEngines(w) ==
    \/ LoadModelCheck(w) \/ LoadModelUnloadOther(w)
    \/ LoadModelAssign(w) \/ LoadModelRaises(w)
    \/ LoadPipelineCheck(w) \/ LoadPipelineUnloadOther(w)
    \/ LoadPipelineAssign(w) \/ LoadPipelineRaises(w)

\* One caller at a time: requests run one after the other on one thread,
\* with the unload endpoint between engine operations.
Next ==
    \/ Start(MainWorker)
    \/ generate(MainWorker)
    \/ LoadEngines(MainWorker)
    \/ Return(MainWorker)
    \/ unload_models

Spec == Init /\ [][Next]_vars

\* One caller and nothing else: the runs follow one another and no endpoint
\* touches the engines between their operations.
NextSolo ==
    \/ Start(MainWorker)
    \/ generate(MainWorker)
    \/ LoadEngines(MainWorker)
    \/ Return(MainWorker)

SpecSolo == Init /\ [][NextSolo]_vars

\* a caller's on_progress raises on the final_prompt event of an image: the
\* call is outside the per-image try, so the exception leaves the loop and
\* reaches the top-level handler.
ProgressCallbackRaises(w) ==
    /\ pc[w] = "p2_iter"
    /\ i[w] < Len(generated_prompts[w])
    /\ result' = [result EXCEPT ![w].errors = Append(@, "callback raised")]
    /\ Emitted(w, <<ProgressEvent("final_prompt",
                        BasePct(i[w], request[w].count), i[w] + 1),
                    ProgressEvent("error", None, 0)>>)
    /\ fatal' = [fatal EXCEPT ![w] = TRUE]
    /\ pc' = [pc EXCEPT ![w] = "returned"]
    /\ UNCHANGED <<stream, slots, shared, locals>>

NextFaultySink ==
    \/ Next
    \/ ProgressCallbackRaises(MainWorker)

SpecFaultySink == Init /\ [][NextFaultySink]_vars

\* ------------------------------------------------- concurrent requests
\* Two streams are open at once: run_in_executor gives each run_generation
\* its own thread of the default pool, and the threads share the two slots
\* and the library. The runs explored here are the ones where nothing fails.
ConcurrentRequests ==
    {r \in Requests :
        /\ r.prompt \in {<<"cat">>, <<"a", "__foo__">>}
        /\ r.count = 1 /\ r.seed # None /\ ~r.enhance}

StartConcurrent(w) == StartWith(w, ConcurrentRequests)

NextConcurrent ==
    \E w \in Workers :
        \/ StartConcurrent(w)
        \/ LoadVars(w) \/ Phase1Iteration(w) \/ SubstituteKnown(w)
        \/ SubstituteMissing(w) \/ GenerateValues(w) \/ SubstituteDone(w)
        \/ Phase1Done(w) \/ Phase2Iteration(w)
        \/ LoadModelCheck(w) \/ LoadModelUnloadOther(w) \/ LoadModelAssign(w)
        \/ LoadPipelineCheck(w) \/ LoadPipelineUnloadOther(w)
        \/ LoadPipelineAssign(w)
        \/ DiffusionStep(w) \/ ImageSaved(w) \/ Complete(w) \/ Return(w)

SpecConcurrent == Init /\ [][NextConcurrent]_vars

\* ------------------------------------- server: _generate_event_stream
StreamRequests == {r \in Requests : r.seed # None /\ ~r.enhance}

\* the stream is opened: the queue and the holders are created, and
\* run_generation is submitted to the executor, where it enters generate().
GenerateEventStreamWith(w, reqs) ==
    /\ pc[w] = "idle"
    /\ cpc[w] = "off"
    /\ \E r \in reqs : Entered(w, r)
    /\ progress_queue' = [progress_queue EXCEPT
                            ![w] = <<ProgressEvent("starting", 5, 0)>>]
    /\ cpc' = [cpc EXCEPT ![w] = "check"]
    /\ frames' = [frames EXCEPT ![w] = <<>>]
    /\ task_done' = [task_done EXCEPT ![w] = FALSE]
    /\ result_holder' = [result_holder EXCEPT ![w] = <<>>]
    /\ error_holder' = [error_holder EXCEPT ![w] = <<>>]
    /\ drain_count' = [drain_count EXCEPT ![w] = 0]

GenerateEventStream(w) == GenerateEventStreamWith(w, StreamRequests)

\* run_generation: generate() returned, the result is put in result_holder,
\* the thread ends and the future of the task is done.
RunGenerationEnds(w) ==
    /\ pc[w] = "returned"
    /\ cpc[w] # "off"
    /\ result_holder' = [result_holder EXCEPT ![w] = Append(@, result[w])]
    /\ task_done' = [task_done EXCEPT ![w] = TRUE]
    /\ pc' = [pc EXCEPT ![w] = "thread_done"]
    /\ UNCHANGED <<slots, shared, locals, result, sink, fatal, cpc, frames,
                   error_holder, drain_count>>

EventFrame(event) == [kind |-> "event", stage |-> event.stage, event |-> event]
TerminalFrame(stage, message) ==
    [kind |-> "terminal", stage |-> stage,
     event |-> ProgressEvent(stage, None, 0), message |-> message]

\* while not gen_task.done():
StreamLoopTest(w) ==
    /\ cpc[w] = "check"
    /\ cpc' = [cpc EXCEPT ![w] = IF task_done[w] THEN "drain" ELSE "wait"]
    /\ UNCHANGED <<slots, shared, pc, locals, result, sink, fatal, frames,
                   task_done, result_holder, error_holder, drain_count>>

\* await wait_for(progress_queue.get(), 0.2) returns an event: it is yielded.
StreamRelay(w) ==
    /\ cpc[w] = "wait"
    /\ progress_queue[w] # <<>>
    /\ frames' = [frames EXCEPT ![w] = Append(@, EventFrame(Head(progress_queue[w])))]
    /\ progress_queue' = [progress_queue EXCEPT ![w] = Tail(@)]
    /\ cpc' = [cpc EXCEPT ![w] = "check"]
    /\ UNCHANGED <<slots, shared, pc, locals, result, events, fatal,
                   task_done, result_holder, error_holder, drain_count>>

StreamWaitsWithoutTimeout(w) ==
    /\ cpc[w] = "wait"
    /\ progress_queue[w] = <<>>
    /\ UNCHANGED vars

\* the wait times out on an empty queue: continue.
StreamTimeout(w) ==
    /\ cpc[w] = "wait"
    /\ progress_queue[w] = <<>>
    /\ cpc' = [cpc EXCEPT ![w] = "check"]
    /\ UNCHANGED <<slots, shared, pc, locals, result, sink, fatal, frames,
                   task_done, result_holder, error_holder, drain_count>>

StreamDrainDrops(w) ==
    /\ cpc[w] = "drain"
    /\ progress_queue[w] # <<>>
    /\ progress_queue' = [progress_queue EXCEPT ![w] = Tail(@)]
    /\ drain_count' = [drain_count EXCEPT ![w] = @ + 1]
    /\ UNCHANGED <<slots, shared, pc, locals, result, events, fatal, cpc,
                   frames, task_done, result_holder, error_holder>>

\* while not progress_queue.empty(): get_nowait() and yield.
StreamDrain(w) ==
    /\ cpc[w] = "drain"
    /\ progress_queue[w] # <<>>
    /\ frames' = [frames EXCEPT ![w] = Append(@, EventFrame(Head(progress_queue[w])))]
    /\ progress_queue' = [progress_queue EXCEPT ![w] = Tail(@)]
    /\ drain_count' = [drain_count EXCEPT ![w] = @ + 1]
    /\ UNCHANGED <<slots, shared, pc, locals, result, events, fatal, cpc,
                   task_done, result_holder, error_holder>>

StreamFinalAnyTime(w) ==
    /\ cpc[w] = "drain"
    /\ frames' = [frames EXCEPT ![w] = Append(@, TerminalFrame("complete", "Generated"))]
    /\ cpc' = [cpc EXCEPT ![w] = "closed"]
    /\ UNCHANGED <<slots, shared, pc, locals, result, sink, fatal, task_done,
                   result_holder, error_holder, drain_count>>

StreamFinalErrorOnFailure(w) ==
    /\ cpc[w] = "drain"
    /\ progress_queue[w] = <<>>
    /\ frames' = [frames EXCEPT
                    ![w] = Append(@,
                        IF error_holder[w] # <<>>
                        THEN TerminalFrame("error", Head(error_holder[w]))
                        ELSE IF /\ result_holder[w] # <<>>
                                /\ Head(result_holder[w]).success
                             THEN TerminalFrame("complete", "Generated")
                        ELSE TerminalFrame("error", "Unknown error"))]
    /\ cpc' = [cpc EXCEPT ![w] = "closed"]
    /\ UNCHANGED <<slots, shared, pc, locals, result, sink, fatal, task_done,
                   result_holder, error_holder, drain_count>>

\* the queue is empty: the final frame is the error of error_holder, else
\* complete with the result of result_holder, else "Unknown error".
StreamFinal(w) ==
    /\ cpc[w] = "drain"
    /\ progress_queue[w] = <<>>
    /\ frames' = [frames EXCEPT
                    ![w] = Append(@,
                        IF error_holder[w] # <<>>
                        THEN TerminalFrame("error", Head(error_holder[w]))
                        ELSE IF result_holder[w] # <<>>
                             THEN TerminalFrame("complete", "Generated")
                        ELSE TerminalFrame("error", "Unknown error"))]
    /\ cpc' = [cpc EXCEPT ![w] = "closed"]
    /\ UNCHANGED <<slots, shared, pc, locals, result, sink, fatal, task_done,
                   result_holder, error_holder, drain_count>>

\* the response is over; the generator and the thread's frame are gone.
StreamClosed(w) ==
    /\ cpc[w] = "closed"
    /\ pc[w] = "thread_done"
    /\ pc' = [pc EXCEPT ![w] = "idle"]
    /\ cpc' = [cpc EXCEPT ![w] = "off"]
    /\ request' = [request EXCEPT ![w] = NoRequest]
    /\ prompt_vars' = [prompt_vars EXCEPT ![w] = EmptyVars]
    /\ base_prompt' = [base_prompt EXCEPT ![w] = <<>>]
    /\ enhancement_instruction' = [enhancement_instruction EXCEPT ![w] = <<>>]
    /\ has_enhancement' = [has_enhancement EXCEPT ![w] = FALSE]
    /\ i' = [i EXCEPT ![w] = 0]
    /\ matches' = [matches EXCEPT ![w] = <<>>]
    /\ current_prompt' = [current_prompt EXCEPT ![w] = <<>>]
    /\ generated_prompts' = [generated_prompts EXCEPT ![w] = <<>>]
    /\ result' = [result EXCEPT ![w] = NewResult]
    /\ events' = [events EXCEPT ![w] = <<>>]
    /\ progress_queue' = [progress_queue EXCEPT ![w] = <<>>]
    /\ seed' = [seed EXCEPT ![w] = None]
    /\ step' = [step EXCEPT ![w] = 0]
    /\ ret' = [ret EXCEPT ![w] = NoReturn]
    /\ exc' = [exc EXCEPT ![w] = FALSE]
    /\ fatal' = [fatal EXCEPT ![w] = FALSE]
    /\ attempts' = [attempts EXCEPT ![w] = <<>>]
    /\ frames' = [frames EXCEPT ![w] = <<>>]
    /\ task_done' = [task_done EXCEPT ![w] = FALSE]
    /\ result_holder' = [result_holder EXCEPT ![w] = <<>>]
    /\ error_holder' = [error_holder EXCEPT ![w] = <<>>]
    /\ drain_count' = [drain_count EXCEPT ![w] = 0]
    /\ loads' = [loads EXCEPT ![w] = NoLoads]
    /\ UNCHANGED <<slots, store, override_config, download, meter>>

\* One stream at a time: the worker thread and the event loop interleave.
NextStream ==
    \/ GenerateEventStream(MainWorker)
    \/ generate(MainWorker)
    \/ LoadEngines(MainWorker)
    \/ RunGenerationEnds(MainWorker)
    \/ StreamLoopTest(MainWorker)
    \/ StreamRelay(MainWorker)
    \/ StreamTimeout(MainWorker)
    \/ StreamDrain(MainWorker)
    \/ StreamFinal(MainWorker)
    \/ StreamClosed(MainWorker)

SpecStream == Init /\ [][NextStream]_vars

\* the event came off the queue and the try body raises an Exception before
\* the frame is out (event_to_json, the log call): except Exception logs it
\* and break leaves the polling loop, whatever gen_task.done() says.
StreamRelayRaises(w) ==
    /\ cpc[w] = "wait"
    /\ progress_queue[w] # <<>>
    /\ progress_queue' = [progress_queue EXCEPT ![w] = Tail(@)]
    /\ cpc' = [cpc EXCEPT ![w] = "drain"]
    /\ UNCHANGED <<slots, shared, pc, locals, result, events, fatal, frames,
                   task_done, result_holder, error_holder, drain_count>>

\* The event loop resumes the stream's coroutine after every await of the
\* consumer (the wait_for of at most 0.2 s, the yields, the sleep(0)) as long
\* as the client keeps reading; nothing is assumed of the worker thread.
ConsumerStep(w) ==
    \/ StreamLoopTest(w) \/ StreamRelay(w) \/ StreamTimeout(w)
    \/ StreamDrain(w) \/ StreamFinal(w)

\* the streams of single-image requests, for the checks of progress
SingleImageRequests == {r \in StreamRequests : r.count = 1}

NextStreamFair ==
    \/ GenerateEventStreamWith(MainWorker, SingleImageRequests)
    \/ generate(MainWorker)
    \/ LoadEngines(MainWorker)
    \/ RunGenerationEnds(MainWorker)
    \/ ConsumerStep(MainWorker)
    \/ StreamClosed(MainWorker)

\* inside an engine call the thread is ended by an exception that is not an
\* Exception (SystemExit, KeyboardInterrupt): neither generate() nor
\* run_generation catches it, the future is done and both holders are empty.
RunGenerationDies(w) ==
    /\ pc[w] \in {"gen_values", "diffuse"}
    /\ cpc[w] # "off"
    /\ task_done' = [task_done EXCEPT ![w] = TRUE]
    /\ pc' = [pc EXCEPT ![w] = "thread_done"]
    /\ UNCHANGED <<slots, shared, locals, result, sink, fatal, cpc, frames,
                   result_holder, error_holder, drain_count>>

NextStreamAbort ==
    \/ NextStreamFair
    \/ RunGenerationDies(MainWorker)

SpecStreamAbort == Init /\ [][NextStreamAbort]_vars

NextFaultyRelay ==
    \/ NextStreamFair
    \/ StreamRelayRaises(MainWorker)

SpecFaultyRelay == Init /\ [][NextFaultyRelay]_vars

SpecStreamFair ==
    Init /\ [][NextStreamFair]_vars /\ WF_vars(ConsumerStep(MainWorker))

\* ------------------------------------------------- client disconnect
ClientDisconnectsCancelsWorker(w) ==
    /\ cpc[w] \in {"check", "wait", "drain"}
    /\ pc[w] # "thread_done"
    /\ cpc' = [cpc EXCEPT ![w] = "disconnected"]
    /\ pc' = [pc EXCEPT ![w] = "cancelled"]
    /\ UNCHANGED <<slots, shared, locals, result, sink, fatal, frames,
                   task_done, result_holder, error_holder, drain_count>>

\* the client closes the connection: the response cancels the stream's
\* coroutine at its current await, and no frame is yielded any more. The
\* executor thread is not touched: run_generation goes on, on_progress still
\* puts events on the queue, which nobody reads.
ClientDisconnects(w) ==
    /\ cpc[w] \in {"check", "wait", "drain"}
    /\ cpc' = [cpc EXCEPT ![w] = "disconnected"]
    /\ UNCHANGED <<slots, shared, pc, locals, result, sink, fatal, frames,
                   task_done, result_holder, error_holder, drain_count>>

\* the thread of a disconnected stream has ended: the queue, the holders and
\* the result in result_holder are dropped with the coroutine's frame.
StreamDiscarded(w) ==
    /\ cpc[w] = "disconnected"
    /\ pc[w] = "thread_done"
    /\ pc' = [pc EXCEPT ![w] = "idle"]
    /\ cpc' = [cpc EXCEPT ![w] = "off"]
    /\ request' = [request EXCEPT ![w] = NoRequest]
    /\ prompt_vars' = [prompt_vars EXCEPT ![w] = EmptyVars]
    /\ base_prompt' = [base_prompt EXCEPT ![w] = <<>>]
    /\ enhancement_instruction' = [enhancement_instruction EXCEPT ![w] = <<>>]
    /\ has_enhancement' = [has_enhancement EXCEPT ![w] = FALSE]
    /\ i' = [i EXCEPT ![w] = 0]
    /\ matches' = [matches EXCEPT ![w] = <<>>]
    /\ current_prompt' = [current_prompt EXCEPT ![w] = <<>>]
    /\ generated_prompts' = [generated_prompts EXCEPT ![w] = <<>>]
    /\ result' = [result EXCEPT ![w] = NewResult]
    /\ events' = [events EXCEPT ![w] = <<>>]
    /\ progress_queue' = [progress_queue EXCEPT ![w] = <<>>]
    /\ seed' = [seed EXCEPT ![w] = None]
    /\ step' = [step EXCEPT ![w] = 0]
    /\ ret' = [ret EXCEPT ![w] = NoReturn]
    /\ exc' = [exc EXCEPT ![w] = FALSE]
    /\ fatal' = [fatal EXCEPT ![w] = FALSE]
    /\ attempts' = [attempts EXCEPT ![w] = <<>>]
    /\ frames' = [frames EXCEPT ![w] = <<>>]
    /\ task_done' = [task_done EXCEPT ![w] = FALSE]
    /\ result_holder' = [result_holder EXCEPT ![w] = <<>>]
    /\ error_holder' = [error_holder EXCEPT ![w] = <<>>]
    /\ drain_count' = [drain_count EXCEPT ![w] = 0]
    /\ UNCHANGED <<slots, shared>>

\* the executor thread: the steps of run_generation
WorkerStep(w) ==
    \/ generate(w) \/ LoadEngines(w) \/ RunGenerationEnds(w)

NextDisconnect ==
    \/ GenerateEventStreamWith(MainWorker, SingleImageRequests)
    \/ WorkerStep(MainWorker)
    \/ ConsumerStep(MainWorker)
    \/ StreamClosed(MainWorker)
    \/ ClientDisconnects(MainWorker)
    \/ StreamDiscarded(MainWorker)

\* The operating system schedules the executor thread and every engine call
\* returns or raises; the event loop resumes the consumer while it is there.
SpecDisconnect ==
    /\ Init /\ [][NextDisconnect]_vars
    /\ WF_vars(WorkerStep(MainWorker))
    /\ WF_vars(ConsumerStep(MainWorker))

\* ------------------------------------------- batches that reuse a token
\* Batches whose prompt names an identifier the library does not hold: one
\* spelled twice in the prompt, and one spelled with three underscores, which
\* the pattern (__[a-zA-Z0-9_\-/]+__) matches whole. The text engine answers
\* every request with values and every save succeeds.
ReuseRequests ==
    [prompt : {<<"__foo__", "__foo__">>, <<"a", "___bar___">>},
     count : 1..MaxCount, seed : ExplicitSeeds,
     enhance : {FALSE}, enhancement_instruction : {<<>>}]

StartReuse(w) == StartWith(w, ReuseRequests)

NextReuse ==
    \/ StartReuse(MainWorker)
    \/ LoadVars(MainWorker) \/ Phase1Iteration(MainWorker)
    \/ SubstituteKnown(MainWorker) \/ SubstituteMissing(MainWorker)
    \/ GenerateValues(MainWorker) \/ SubstituteDone(MainWorker)
    \/ Phase1Done(MainWorker) \/ Phase2Iteration(MainWorker)
    \/ LoadModelCheck(MainWorker) \/ LoadModelUnloadOther(MainWorker)
    \/ LoadModelAssign(MainWorker)
    \/ LoadPipelineCheck(MainWorker) \/ LoadPipelineUnloadOther(MainWorker)
    \/ LoadPipelineAssign(MainWorker)
    \/ DiffusionStep(MainWorker) \/ ImageSaved(MainWorker)
    \/ Complete(MainWorker) \/ Return(MainWorker)

SpecReuse == Init /\ [][NextReuse]_vars

\* ------------------------------------------------ server: model settings
SettingsFields ==
    {"image_mode", "image_repo", "image_path",
     "llm_mode", "llm_repo", "llm_path"}
VALID_IMAGE_MODES == {"hf_download", "hf_local", "sdnq", "components"}
VALID_LLM_MODES == {"hf_download", "hf_local", "gguf", "z_image"}

\* a field of a JSON body: the key is not there, it is null, or it has a value
Absent == "absent"
Null == "null"
FieldValues(f) ==
    CASE f = "image_mode" -> {"hf_local", "bogus"}
      [] f = "llm_mode" -> {"gguf", "bogus"}
      [] f \in {"image_repo", "llm_repo"} -> {"custom/repo"}
      [] OTHER -> {"/models/custom"}

\* the bodies posted: at most MaxKeys keys each
SettingsBodies ==
    {b \in [SettingsFields ->
               {Absent, Null, "hf_local", "gguf", "bogus", "custom/repo",
                "/models/custom"}] :
        /\ \A f \in SettingsFields : b[f] \in {Absent, Null} \cup FieldValues(f)
        /\ Cardinality({f \in SettingsFields : b[f] # Absent}) <= MaxKeys}

\* ModelSettingsUpdate: every field is Optional[str] = None, so a missing key
\* and a null both become None.
ModelSettingsUpdate(body) ==
    [f \in SettingsFields |-> IF body[f] = Absent THEN Null ELSE body[f]]

\* the two mode checks of update_model_settings
ValidModes(update) ==
    /\ update["image_mode"] # Null => update["image_mode"] \in VALID_IMAGE_MODES
    /\ update["llm_mode"] # Null => update["llm_mode"] \in VALID_LLM_MODES

\* set_override_config: a field that is not None is stored, a field that is
\* None is left as it was.
set_override_config(current, update) ==
    [f \in (DOMAIN current) \cup {g \in SettingsFields : update[g] # Null} |->
        IF update[f] # Null THEN update[f] ELSE current[f]]

\* clear_override_config: _override_config = None
clear_override_config == NoOverrides

\* POST /api/settings/models: an invalid mode is answered with an error and
\* nothing is stored; a request whose fields are all None clears every
\* override; any other request goes to set_override_config.
update_model_settings(body) ==
    /\ LET update == ModelSettingsUpdate(body) IN
       override_config' =
           IF ~ValidModes(update) THEN override_config
           ELSE IF \A f \in SettingsFields : update[f] = Null
                THEN clear_override_config
           ELSE set_override_config(override_config, update)
    /\ UNCHANGED <<stream, slots, store, download, loads, meter, pc, locals, result, sink,
                   fatal>>

\* POST /api/models/reload: unload_model(), then unload_pipeline(); the
\* engines are loaded again by the next generation.
reload_models ==
    /\ \A w \in Workers : ~InEngineLoad(w)
    /\ unload_model
    /\ unload_pipeline
    /\ UNCHANGED <<stream, shared, pc, locals, result, sink, fatal>>

\* the override of a field, or "" when there is none (dict.get gives None)
OverrideOf(f) ==
    IF f \in DOMAIN override_config THEN override_config[f] ELSE ""

\* get_active_llm_config(): the environment's configuration with the
\* overrides of llm_mode, llm_repo and llm_path applied; a mode that is not
\* an LLMMode falls back to the environment's mode.
get_active_llm_config ==
    IF override_config = NoOverrides THEN get_llm_config
    ELSE [mode |-> IF OverrideOf("llm_mode") \in VALID_LLM_MODES
                   THEN OverrideOf("llm_mode") ELSE get_llm_config.mode,
          hf_repo |-> IF OverrideOf("llm_repo") # ""
                      THEN OverrideOf("llm_repo") ELSE get_llm_config.hf_repo,
          hf_local_path |-> IF OverrideOf("llm_path") # ""
                            THEN OverrideOf("llm_path")
                            ELSE get_llm_config.hf_local_path]

\* get_active_image_config(): the same for image_mode, image_repo, image_path.
get_active_image_config ==
    IF override_config = NoOverrides THEN get_image_model_config
    ELSE [mode |-> IF OverrideOf("image_mode") \in VALID_IMAGE_MODES
                   THEN OverrideOf("image_mode")
                   ELSE get_image_model_config.mode,
          hf_repo |-> IF OverrideOf("image_repo") # ""
                      THEN OverrideOf("image_repo")
                      ELSE get_image_model_config.hf_repo,
          hf_local_path |-> IF OverrideOf("image_path") # ""
                            THEN OverrideOf("image_path")
                            ELSE get_image_model_config.hf_local_path]

\* One caller at a time: settings are posted, the models are reloaded and
\* requests that use both engines run, in any order.
SettingsRunRequests ==
    {r \in Requests :
        /\ r.prompt = <<"cat">> /\ r.count = 1 /\ r.seed # None
        /\ r.enhance /\ r.enhancement_instruction = <<>>}

StartSettings(w) == StartWith(w, SettingsRunRequests)

NextSettings ==
    \/ \E body \in SettingsBodies : update_model_settings(body)
    \/ reload_models
    \/ StartSettings(MainWorker)
    \/ LoadVars(MainWorker) \/ Phase1Iteration(MainWorker)
    \/ SubstituteDone(MainWorker) \/ Enhance(MainWorker)
    \/ Phase1Done(MainWorker) \/ Phase2Iteration(MainWorker)
    \/ LoadModelCheck(MainWorker) \/ LoadModelUnloadOther(MainWorker)
    \/ LoadModelAssign(MainWorker)
    \/ LoadPipelineCheck(MainWorker) \/ LoadPipelineUnloadOther(MainWorker)
    \/ LoadPipelineAssign(MainWorker)
    \/ DiffusionStep(MainWorker) \/ ImageSaved(MainWorker)
    \/ Complete(MainWorker) \/ Return(MainWorker)

SpecSettings == Init /\ [][NextSettings]_vars

\* ------------------------------------------- services: download_all_models
DEFAULT_SDNQ_MODEL == "Disty0/Z-Image-Turbo-SDNQ-uint4-svd-r32"

\* the environments the download runs in: the modes and the repositories
\* that get_image_model_config() and get_llm_config() return
DownloadEnvironments ==
    [image_mode : {"hf_download", "sdnq", "hf_local"},
     image_repo : {"Tongyi-MAI/Z-Image-Turbo", "custom/image"},
     sdnq_model : {DEFAULT_SDNQ_MODEL, "custom/sdnq"},
     llm_mode : {"hf_download", "z_image"},
     llm_repo : {"Qwen/Qwen3-4B", "custom/llm"}]
\* get_models_to_download(): the image model in the modes hf_download and
\* sdnq, then the text model in the mode hf_download.
get_models_to_download(env) ==
    (CASE env.image_mode = "hf_download" -> <<env.image_repo>>
       [] env.image_mode = "sdnq" -> <<env.sdnq_model>>
       [] OTHER -> <<>>)
    \o (IF env.llm_mode = "hf_download" THEN <<env.llm_repo>> ELSE <<>>)

\* download_all_models() is called: with no model to download it returns
\* True at once, otherwise the loop starts at the first model.
DownloadAllModelsCalled ==
    /\ dl_pc = "idle"
    /\ \E env \in DownloadEnvironments :
          LET models == get_models_to_download(env) IN
          /\ dl_models' = models
          /\ dl_pc' = IF models = <<>> THEN "returned" ELSE "loop"
    /\ dl_index' = 1
    /\ dl_calls' = <<>>
    /\ dl_all_success' = TRUE
    /\ dl_return' = TRUE
    /\ UNCHANGED <<stream, slots, store, override_config, loads, meter, pc, locals,
                   result,
                   sink, fatal>>

\* for model_name, repo_id in models: download_model_with_progress is called
\* (status checking while the size of the repository is asked); after the
\* last model the loop ends and all_success is returned.
DownloadLoop ==
    /\ dl_pc = "loop"
    /\ IF dl_index <= Len(dl_models)
       THEN /\ dl_calls' = Append(dl_calls,
                              [repo_id |-> dl_models[dl_index],
                               status |-> "checking"])
            /\ dl_pc' = "checking"
            /\ UNCHANGED dl_return
       ELSE /\ dl_return' = dl_all_success
            /\ dl_pc' = "returned"
            /\ UNCHANGED dl_calls
    /\ UNCHANGED <<stream, slots, store, override_config, loads, meter, pc, locals,
                   result,
                   sink, fatal, dl_models, dl_index, dl_all_success>>

\* get_repo_size returned (it swallows its errors): status downloading, and
\* snapshot_download runs in its thread.
DownloadStarts ==
    /\ dl_pc = "checking"
    /\ dl_calls' = [dl_calls EXCEPT ![Len(dl_calls)].status = "downloading"]
    /\ dl_pc' = "downloading"
    /\ UNCHANGED <<stream, slots, store, override_config, loads, meter, pc, locals,
                   result,
                   sink, fatal, dl_models, dl_index, dl_all_success, dl_return>>

\* snapshot_download finished: status complete, the call returns True and
\* the loop goes to the next model.
DownloadSucceeds ==
    /\ dl_pc = "downloading"
    /\ dl_calls' = [dl_calls EXCEPT ![Len(dl_calls)].status = "complete"]
    /\ dl_index' = dl_index + 1
    /\ dl_pc' = "loop"
    /\ UNCHANGED <<stream, slots, store, override_config, loads, meter, pc, locals,
                   result,
                   sink, fatal, dl_models, dl_all_success, dl_return>>

DownloadFailsContinues ==
    /\ dl_pc = "downloading"
    /\ dl_calls' = [dl_calls EXCEPT ![Len(dl_calls)].status = "error"]
    /\ dl_all_success' = FALSE
    /\ dl_index' = dl_index + 1
    /\ dl_pc' = "loop"
    /\ UNCHANGED <<stream, slots, store, override_config, loads, meter, pc, locals,
                   result,
                   sink, fatal, dl_models, dl_return>>

\* the download raised: status error, the call returns False; all_success
\* becomes False and break leaves the loop, so False is returned.
DownloadFails ==
    /\ dl_pc = "downloading"
    /\ dl_calls' = [dl_calls EXCEPT ![Len(dl_calls)].status = "error"]
    /\ dl_all_success' = FALSE
    /\ dl_return' = FALSE
    /\ dl_pc' = "returned"
    /\ UNCHANGED <<stream, slots, store, override_config, loads, meter, pc, locals,
                   result,
                   sink, fatal, dl_models, dl_index>>

\* the caller has the value; the next call may come.
DownloadReturned ==
    /\ dl_pc = "returned"
    /\ dl_pc' = "idle"
    /\ dl_models' = <<>>
    /\ dl_index' = 0
    /\ dl_calls' = <<>>
    /\ dl_all_success' = TRUE
    /\ dl_return' = FALSE
    /\ UNCHANGED <<stream, slots, store, override_config, loads, meter, pc, locals,
                   result,
                   sink, fatal>>

NextDownload ==
    \/ DownloadAllModelsCalled
    \/ DownloadLoop
    \/ DownloadStarts
    \/ DownloadSucceeds
    \/ DownloadFails
    \/ DownloadReturned

SpecDownload == Init /\ [][NextDownload]_vars

\* --------------------------------------------- the progress of one run
\* The progress values generate() emits, for every count a request may
\* have, with the lists of the run left out: the events that carry no
\* progress (the var_ events, enhancing, enhanced, error) leave the value
\* as it is.
MeterEmits(next_pc, pct) ==
    meter' = [meter EXCEPT !.pc = next_pc, !.last = meter.pct, !.pct = pct]

MeterUnchanged ==
    UNCHANGED <<stream, slots, store, override_config, download, loads, pc,
                locals, result, sink, fatal>>

\* starting, 5
MeterStarting ==
    /\ meter.pc = "idle"
    /\ \E count \in 1..MaxProgressCount, enhance \in BOOLEAN :
          meter' = [NoMeter EXCEPT !.pc = "load_vars", !.count = count,
                                   !.enhance = enhance]
    /\ MeterUnchanged

\* loading_vars, 10
MeterLoadingVars ==
    /\ meter.pc = "load_vars"
    /\ MeterEmits("phase1", 10)
    /\ MeterUnchanged

\* phase1_complete, 15, at the start of phase 1
MeterPhase1 ==
    /\ meter.pc = "phase1"
    /\ MeterEmits("unload", 15)
    /\ MeterUnchanged

\* llm_unloaded, 35, if count > 1 or has_enhancement and the unload did not
\* raise; then loading_image_model, 40
MeterUnload ==
    /\ meter.pc = "unload"
    /\ \/ /\ meter.count > 1 \/ meter.enhance
          /\ MeterEmits("load_image", 35)
       \/ MeterEmits("image", 40)
    /\ MeterUnchanged

MeterLoadingImageModel ==
    /\ meter.pc = "load_image"
    /\ MeterEmits("image", 40)
    /\ MeterUnchanged

\* final_prompt and generating_image, both with base_pct
MeterImage ==
    /\ meter.pc = "image"
    /\ meter.index < meter.count
    /\ meter' = [meter EXCEPT !.pc = "steps", !.step = 0, !.last = meter.pct,
                              !.pct = BasePct(meter.index, meter.count)]
    /\ MeterUnchanged

\* diffusion_step, for the steps 1..num_steps in increasing order
MeterStep ==
    /\ meter.pc = "steps"
    /\ meter.step < num_steps
    /\ meter' = [meter EXCEPT
                    !.step = @ + 1, !.last = meter.pct,
                    !.pct = StepPct(meter.index, meter.count,
                                    meter.step + 1, num_steps)]
    /\ MeterUnchanged

\* image_saved, base_pct + per_image_range
MeterImageSaved ==
    /\ meter.pc = "steps"
    /\ meter.step = num_steps
    /\ meter' = [meter EXCEPT
                    !.pc = "image", !.index = @ + 1, !.last = meter.pct,
                    !.pct = BasePct(meter.index, meter.count)
                                + PerImageRange(meter.count)]
    /\ MeterUnchanged

\* the synthesis raises: the error event has no progress; the next image
MeterImageFailed ==
    /\ meter.pc = "steps"
    /\ meter.step \in FailureSteps
    /\ meter' = [meter EXCEPT !.pc = "image", !.index = @ + 1]
    /\ MeterUnchanged

\* complete, 100
MeterComplete ==
    /\ meter.pc = "image"
    /\ meter.index = meter.count
    /\ MeterEmits("returned", 100)
    /\ MeterUnchanged

MeterReturn ==
    /\ meter.pc = "returned"
    /\ meter' = NoMeter
    /\ MeterUnchanged

NextProgress ==
    \/ MeterStarting \/ MeterLoadingVars \/ MeterPhase1 \/ MeterUnload
    \/ MeterLoadingImageModel \/ MeterImage \/ MeterStep \/ MeterImageSaved
    \/ MeterImageFailed \/ MeterComplete \/ MeterReturn

SpecProgress == Init /\ [][NextProgress]_vars

\* ------------------------------------------------------------ properties
\* generate() has returned its result to the caller
Returned(w) == pc[w] = "returned"
Stages(w) == [k \in DOMAIN events[w] |-> events[w][k].stage]
HasStage(w, stage) == \E k \in DOMAIN events[w] : events[w][k].stage = stage
ImageIndexes(w) == {result[w].images[k].index : k \in DOMAIN result[w].images}
FailedIndexes(w) == {result[w].errors[k][2] : k \in DOMAIN result[w].errors}

\* C1: with engine operations executed one at a time, the text slot and the
\* image slot are never both populated.
ResidencyExclusive == ~(llm_model /\ pipeline)

\* C1 witness: the text engine generated values in a count = 1 run without
\* enhancement (so the workflow itself did not unload it), and the image
\* pipeline is now loaded and running.
ResidencySwitched ==
    /\ pipeline
    /\ pc[MainWorker] = "diffuse"
    /\ request[MainWorker].count = 1
    /\ ~has_enhancement[MainWorker]
    /\ HasStage(MainWorker, "var_saved")

\* C3 (as claimed): every returned result has success = (len(images) > 0),
\* also when the top-level handler ended the run.
SuccessIffImages ==
    \A w \in Workers :
        Returned(w) => (result[w].success = (Len(result[w].images) > 0))

\* C4: when phase 1 completes, generate_image is called for the prompts
\* 1..N in order; every index is either in images or named by exactly one
\* error string with its error event, and the images keep their order.
EveryImageAttempted ==
    \A w \in Workers :
        (Returned(w) /\ ~fatal[w]) =>
            LET n == request[w].count IN
            /\ attempts[w] = [k \in 1..n |-> k]
            /\ ImageIndexes(w) \cup FailedIndexes(w) = 1..n
            /\ ImageIndexes(w) \cap FailedIndexes(w) = {}
            /\ Len(result[w].images) + Len(result[w].errors) = n
            /\ \A a, b \in DOMAIN result[w].images :
                a < b => result[w].images[a].index < result[w].images[b].index
            /\ \A k \in 1..n :
                Cardinality({e \in DOMAIN events[w] :
                    events[w][e].stage = "error" /\ events[w][e].index = k})
                = (IF k \in FailedIndexes(w) THEN 1 ELSE 0)

\* C4 witness: image 1 of 2 failed and image 2 is in the result.
LaterImageKept ==
    /\ Returned(MainWorker)
    /\ ~fatal[MainWorker]
    /\ request[MainWorker].count = 2
    /\ FailedIndexes(MainWorker) = {1}
    /\ ImageIndexes(MainWorker) = {2}

\* C5: without a phase-fatal error final_prompts has one entry per requested
\* image, whatever failed in enhancement, variable generation or synthesis.
FinalPromptsPerRequest ==
    \A w \in Workers :
        (Returned(w) /\ ~fatal[w]) =>
            Len(result[w].final_prompts) = request[w].count

\* C5 witness: an enhancement failed in phase 1, an image failed in phase 2.
PromptsDespiteFailures ==
    /\ Returned(MainWorker)
    /\ ~fatal[MainWorker]
    /\ request[MainWorker].count = 2
    /\ HasStage(MainWorker, "enhancing")
    /\ \E k \in DOMAIN events[MainWorker] :
        /\ events[MainWorker][k].stage = "error"
        /\ events[MainWorker][k].index = 0
    /\ result[MainWorker].errors # <<>>

\* C6 (as claimed): without a phase-fatal error seeds_used has one entry per
\* requested image, also for the images whose synthesis failed.
SeedsPerRequest ==
    \A w \in Workers :
        (Returned(w) /\ ~fatal[w]) =>
            Len(result[w].seeds_used) = request[w].count

\* C6 (amended): seeds_used has one entry per produced image; a failed
\* synthesis adds an error and no seed.
SeedsPerImage ==
    \A w \in Workers :
        (Returned(w) /\ ~fatal[w]) =>
            /\ Len(result[w].seeds_used) = Len(result[w].images)
            /\ Len(result[w].seeds_used) =
                   request[w].count - Len(result[w].errors)

\* C6 witness: one of two syntheses failed and one seed was recorded.
SeedOfFailedImageDropped ==
    /\ Returned(MainWorker)
    /\ ~fatal[MainWorker]
    /\ request[MainWorker].count = 2
    /\ Len(result[MainWorker].errors) = 1
    /\ Len(result[MainWorker].seeds_used) = 1

\* C7 (as claimed): images, final_prompts and seeds_used are index-aligned.
IndexAligned ==
    \A w \in Workers :
        Returned(w) =>
            \A k \in DOMAIN result[w].images :
                /\ k \in DOMAIN result[w].final_prompts
                /\ result[w].final_prompts[k] = result[w].images[k].prompt
                /\ k \in DOMAIN result[w].seeds_used
                /\ result[w].seeds_used[k] = result[w].images[k].seed

ExclusiveUnderConcurrency ==
    \A w \in Workers : (pc[w] # "idle") => ~(llm_model /\ pipeline)

\* ------------------------------------------------ the stream adapter
RECURSIVE EventsOf(_)
EventsOf(fs) ==
    IF fs = <<>> THEN <<>>
    ELSE IF Head(fs).kind = "event"
         THEN <<Head(fs).event>> \o EventsOf(Tail(fs))
    ELSE EventsOf(Tail(fs))

RelayedEvents(w) == EventsOf(frames[w])
TerminalFrames(w) == {k \in DOMAIN frames[w] : frames[w][k].kind = "terminal"}

\* C9: while a stream is open, the frames relayed so far followed by the
\* events still in the queue are exactly the events the worker has emitted,
\* in the order of emission; when the stream ends, the relayed frames are
\* the emitted events, each once.
RelayedInOrder ==
    \A w \in Workers :
        /\ (cpc[w] # "off") =>
              (RelayedEvents(w) \o progress_queue[w] = events[w])
        /\ (cpc[w] = "closed") => (RelayedEvents(w) = events[w])

\* C9 witness: a stream ended after relaying some events while the worker
\* ran and others, still queued when the worker finished, from the drain.
RelayedLiveAndDrained ==
    /\ cpc[MainWorker] = "closed"
    /\ drain_count[MainWorker] > 0
    /\ Len(RelayedEvents(MainWorker)) > drain_count[MainWorker]
    /\ HasStage(MainWorker, "image_saved")

\* C10: a stream that has ended holds exactly one frame added by the
\* adapter, it is the last frame, its stage is complete or error, and every
\* event the worker queued was relayed before it; no such frame exists
\* before the stream has ended.
OneTerminalFrameLast ==
    \A w \in Workers :
        /\ (cpc[w] = "closed") =>
              /\ Cardinality(TerminalFrames(w)) = 1
              /\ TerminalFrames(w) = {Len(frames[w])}
              /\ frames[w][Len(frames[w])].stage \in {"complete", "error"}
              /\ progress_queue[w] = <<>>
              /\ task_done[w]
              /\ Len(frames[w]) = Len(events[w]) + 1
        /\ (cpc[w] \in {"check", "wait", "drain"}) => (TerminalFrames(w) = {})

\* C10 witness: the terminal frame follows at least two drained events of a
\* run that the top-level handler ended.
TerminalAfterDrain ==
    /\ cpc[MainWorker] = "closed"
    /\ drain_count[MainWorker] >= 2
    /\ fatal[MainWorker]
    /\ frames[MainWorker][Len(frames[MainWorker])].kind = "terminal"

\* C11: once the worker's task is done, the consumer leaves the polling
\* loop, drains the queue and emits the terminal frame; and a consumer that
\* waits on the queue can always go on, by an event or by the timeout.
TerminalFrameEventually ==
    \A w \in Workers :
        /\ task_done[w] ~> (cpc[w] = "closed")
        /\ [](cpc[w] = "wait" =>
                ENABLED <<StreamRelay(w) \/ StreamTimeout(w)>>_vars)

\* C11 witness: the stream ended although the queue was empty when the
\* polling loop was left (nothing was drained): the consumer was waiting on
\* a worker that had nothing more to say.
TerminalAfterSilence ==
    /\ cpc[MainWorker] = "closed"
    /\ task_done[MainWorker]
    /\ drain_count[MainWorker] = 0
    /\ Len(frames[MainWorker]) = Len(events[MainWorker]) + 1

\* C12: after a disconnect no frame is added to the stream, and the worker
\* is not interrupted: it goes on to the end of run_generation, where its
\* result sits in result_holder, never sent.
DisconnectStopsDeliveryOnly ==
    /\ [][\A w \in Workers :
            (cpc[w] = "disconnected") =>
                (frames'[w] = frames[w] \/ cpc'[w] = "off")]_vars
    /\ \A w \in Workers :
        (cpc[w] = "disconnected") ~>
            (/\ cpc[w] = "disconnected"
             /\ pc[w] = "thread_done"
             /\ result_holder[w] = <<result[w]>>
             /\ TerminalFrames(w) = {})

\* C12 witness: the client left before the first image was announced; the
\* worker still saved the image and completed, and the events after the
\* disconnect were never delivered.
WorkerOutlivesClient ==
    /\ cpc[MainWorker] = "disconnected"
    /\ pc[MainWorker] = "thread_done"
    /\ result[MainWorker].success
    /\ HasStage(MainWorker, "complete")
    /\ ~(\E k \in DOMAIN frames[MainWorker] :
            frames[MainWorker][k].stage = "generating_image")

\* ------------------------------------------------- the order of events
StageCount(w, stage) ==
    Cardinality({k \in DOMAIN events[w] : events[w][k].stage = stage})
LastStage(w) == events[w][Len(events[w])].stage

\* C13: the first event of a run is the one starting event, with progress
\* 5; when the Variable Store loaded, the second event is the one
\* loading_vars event (otherwise it is the handler's error event); and when
\* generate() has returned the last event is complete or error.
StartingFirstTerminalLast ==
    \A w \in Workers :
        (pc[w] # "idle") =>
            /\ events[w] # <<>>
            /\ events[w][1] = ProgressEvent("starting", 5, 0)
            /\ StageCount(w, "starting") = 1
            /\ (pc[w] # "load_vars") =>
                  /\ Len(events[w]) >= 2
                  /\ events[w][2].stage \in {"loading_vars", "error"}
                  /\ (events[w][2].stage = "error") =>
                        (fatal[w] /\ Len(events[w]) = 2)
                  /\ StageCount(w, "loading_vars") =
                        (IF events[w][2].stage = "loading_vars" THEN 1 ELSE 0)
            /\ Returned(w) =>
                  /\ LastStage(w) = (IF fatal[w] THEN "error" ELSE "complete")
                  /\ StageCount(w, "complete") = (IF fatal[w] THEN 0 ELSE 1)

\* C13 witness: a run with an error event in the middle (a failed image)
\* returned with complete as its last event.
CompleteAfterError ==
    /\ Returned(MainWorker)
    /\ HasStage(MainWorker, "error")
    /\ HasStage(MainWorker, "image_saved")
    /\ LastStage(MainWorker) = "complete"

Phase1Stages ==
    {"substituting", "var_missing", "var_generating", "var_saved",
     "enhancing", "enhanced"}
Phase2Stages ==
    {"loading_image_model", "generating_image", "diffusion_step",
     "image_saved"}
\* the worker is inside a call of the text engine
InTextEngineCall(w) ==
    \/ pc[w] \in {"gen_values", "enhance"}
    \/ pc[w] \in {"lm_check", "lm_unload_other", "lm_load"}

\* C14: in the events of a run no event of phase 1 comes after an event of
\* phase 2, and once generate_image has been called for the first image of
\* the batch the worker is never inside a text-engine call again.
Phase1BeforePhase2 ==
    \A w \in Workers :
        /\ \A a, b \in DOMAIN events[w] :
              (a < b) => ~(/\ events[w][a].stage \in Phase2Stages
                           /\ events[w][b].stage \in Phase1Stages)
        /\ (attempts[w] # <<>>) => ~InTextEngineCall(w)
        /\ (attempts[w] # <<>>) =>
              Len(generated_prompts[w]) = request[w].count

\* C14 witness: two prompts were substituted and enhanced, then two images
\* were saved.
TwoPromptsThenTwoImages ==
    /\ Returned(MainWorker)
    /\ StageCount(MainWorker, "substituting") = 2
    /\ StageCount(MainWorker, "enhanced") = 2
    /\ StageCount(MainWorker, "image_saved") = 2

RECURSIVE IsSubsequence(_, _)
IsSubsequence(sub, seq) ==
    IF sub = <<>> THEN TRUE
    ELSE IF seq = <<>> THEN FALSE
    ELSE IF Head(sub) = Head(seq)
         THEN IsSubsequence(Tail(sub), Tail(seq))
    ELSE IsSubsequence(sub, Tail(seq))

\* a returned run of a request without enhancement whose prompt has exactly
\* one token, which was not in the mapping (var_missing is emitted exactly
\* then)
OneUnknownToken(w) ==
    /\ Returned(w)
    /\ ~has_enhancement[w]
    /\ Len(FindAll(request[w].prompt)) = 1
    /\ HasStage(w, "var_missing")

\* C15 (as claimed): the events of such a run contain, in this order,
\* starting, loading_vars, var_missing, var_generating, var_saved and
\* substituting, and end with complete.
UnknownTokenSequence ==
    \A w \in Workers :
        OneUnknownToken(w) =>
            /\ IsSubsequence(<<"starting", "loading_vars", "var_missing",
                               "var_generating", "var_saved", "substituting">>,
                             Stages(w))
            /\ LastStage(w) = "complete"

\* C15 (amended): the events contain starting, loading_vars, var_missing and
\* var_generating in this order; when the token was substituted, var_saved
\* and substituting follow in this order; and the last event is complete
\* unless the top-level handler ended the run.
UnknownTokenSequenceWhenGenerated ==
    \A w \in Workers :
        OneUnknownToken(w) =>
            /\ IsSubsequence(<<"starting", "loading_vars", "var_missing",
                               "var_generating">>, Stages(w))
            /\ HasStage(w, "substituting") =>
                  IsSubsequence(<<"starting", "loading_vars", "var_missing",
                                  "var_generating", "var_saved",
                                  "substituting">>, Stages(w))
            /\ HasStage(w, "substituting") =>
                  (/\ StageCount(w, "var_saved") >= 1
                   /\ \A a, b \in DOMAIN events[w] :
                        (/\ events[w][a].stage = "substituting"
                         /\ events[w][b].stage = "var_saved"
                         /\ \A c \in DOMAIN events[w] :
                                events[w][c].stage = "var_saved" => b <= c)
                        => b < a)
            /\ ~fatal[w] => LastStage(w) = "complete"

\* C15 witness: the values of the unknown token were generated and the run
\* completed.
UnknownTokenGenerated ==
    /\ OneUnknownToken(MainWorker)
    /\ request[MainWorker].prompt = <<"a", "__foo__">>
    /\ HasStage(MainWorker, "var_saved")
    /\ HasStage(MainWorker, "substituting")
    /\ LastStage(MainWorker) = "complete"

\* enhancement was used: the explicit flag or the " > " syntax
UsesEnhancement(w) ==
    request[w].enhance \/ HasSeparator(request[w].prompt)
UnloadsBeforePhase2(w) == request[w].count > 1 \/ UsesEnhancement(w)

InSynthesisCall(w) ==
    \/ pc[w] = "diffuse"
    \/ pc[w] \in {"lp_check", "lp_unload_other", "lp_load"}
\* the seeds a synthesis call of the request may be given
SeedsFor(w) ==
    IF request[w].seed # None THEN {request[w].seed} ELSE RandomSeeds

\* C17: every generate_image call of a request with an explicit seed is
\* given that seed, and every entry of seeds_used, and the seed every saved
\* image was made with, equals it; without an explicit seed each call is
\* given a value drawn from the random range.
SeedsAsRequested ==
    \A w \in Workers :
        /\ InSynthesisCall(w) => seed[w] \in SeedsFor(w)
        /\ \A k \in DOMAIN result[w].seeds_used :
              /\ result[w].seeds_used[k] \in SeedsFor(w)
              /\ result[w].images[k].seed = result[w].seeds_used[k]

\* C17 witness: a request with an explicit seed and the largest count had
\* every image saved, each with the seed of the request.
SameSeedRepeated ==
    /\ Returned(MainWorker)
    /\ request[MainWorker].seed \in ExplicitSeeds
    /\ request[MainWorker].count = MaxCount
    /\ result[MainWorker].seeds_used =
           [k \in 1..MaxCount |-> request[MainWorker].seed]

\* the prompt holds the directive that FullPrompt appends for the text engine
HasDirective(prompt) ==
    \E k \in DOMAIN prompt : prompt[k] = "Enhancement instruction:"

\* C18 (as claimed): a prompt whose enhancement failed is carried forward
\* as the substituted base prompt, so no prompt handed to phase 2 holds the
\* enhancement-instruction directive.
FailedEnhancementKeepsOriginal ==
    \A w \in Workers :
        \A k \in DOMAIN generated_prompts[w] :
            ~HasDirective(generated_prompts[w][k])

\* C19 (as claimed): every per-unit failure is in result.errors and has its
\* error event; in a run without enhancement, where the failures are those
\* of variable generation and of image synthesis (and the handler's), the
\* error events and the entries of errors are as many.
PerUnitFailuresRecorded ==
    \A w \in Workers :
        ~has_enhancement[w] =>
            StageCount(w, "error") = Len(result[w].errors)

\* C20 (as claimed): when the text engine is done with the values of an
\* unknown token, either var_saved is emitted, or an error event is emitted,
\* nothing is saved and the token stays in the prompt.
EmptyValuesReported ==
    [][\A w \in Workers :
        (pc[w] = "gen_values" /\ pc'[w] # "gen_values") =>
            \/ /\ Len(events'[w]) = Len(events[w]) + 2
               /\ events'[w][Len(events[w]) + 1].stage = "var_saved"
            \/ /\ events'[w] =
                     Append(events[w], ProgressEvent("error", None, 0))
               /\ store' = store
               /\ current_prompt'[w] = current_prompt[w]]_vars

\* the identifiers spelled in the prompt of the request
IdentifiersOf(w) ==
    {request[w].prompt[k] : k \in DOMAIN request[w].prompt} \cap Tokens

\* C21: in a batch where every generation returns values and every save
\* succeeds, var_missing is emitted (and the text engine asked for values) at
\* most once per identifier of the prompt: a later occurrence and a later
\* iteration find the identifier in the mapping.
MissingOncePerIdentifier ==
    \A w \in Workers :
        StageCount(w, "var_missing") <= Cardinality(IdentifiersOf(w))

\* C22: an accepted POST /api/settings/models clears the override of every
\* field it passes as null, stores every field it passes with a value, and
\* leaves the override of every field it does not mention as it was.
NullClearsThatFieldOnly ==
    [][\A body \in SettingsBodies :
          (ValidModes(ModelSettingsUpdate(body)) /\ update_model_settings(body))
          => \A f \in SettingsFields :
                CASE body[f] = Null -> f \notin DOMAIN override_config'
                  [] body[f] = Absent ->
                        /\ (f \in DOMAIN override_config') =
                           (f \in DOMAIN override_config)
                        /\ f \in DOMAIN override_config =>
                              override_config'[f] = override_config[f]
                  [] OTHER ->
                        /\ f \in DOMAIN override_config'
                        /\ override_config'[f] = body[f]]_vars

\* C23: an engine that is loaded is loaded with the active configuration:
\* the environment's configuration with the overrides in force applied.
LoadsReadActiveConfig ==
    [][/\ (~llm_model /\ llm_model') => llm_config' = get_active_llm_config
       /\ (~pipeline /\ pipeline') =>
              image_config' = get_active_image_config]_vars

\* C24: download_all_models calls download_model_with_progress on the models
\* in list order, one call at a time, makes no call after a call that failed,
\* and returns True exactly when it called every model of the list and every
\* call succeeded (so True for the empty list).
DownloadsStopAtFirstFailure ==
    /\ Len(dl_calls) <= Len(dl_models)
    /\ \A k \in DOMAIN dl_calls :
          /\ dl_calls[k].repo_id = dl_models[k]
          /\ k < Len(dl_calls) => dl_calls[k].status = "complete"
    /\ dl_pc = "returned" =>
          /\ \A k \in DOMAIN dl_calls :
                dl_calls[k].status \in {"complete", "error"}
          /\ dl_return <=>
                /\ Len(dl_calls) = Len(dl_models)
                /\ \A k \in DOMAIN dl_calls : dl_calls[k].status = "complete"

\* the first of two models failed: the second was never tried, False returned
SecondModelNotTried ==
    /\ dl_pc = "returned"
    /\ Len(dl_models) = 2
    /\ Len(dl_calls) = 1
    /\ dl_calls[1].status = "error"
    /\ ~dl_return

\* the events a step appends to the sequence of worker w
NewEvents(w) ==
    SubSeq(events'[w], Len(events[w]) + 1, Len(events'[w]))

\* C25: a resolution step that emits var_saved has persisted the values: the
\* library holds them under the identifier's name after the step.
SavedEventOnlyAfterSave ==
    [][\A w \in Workers :
          (/\ pc[w] = "gen_values"
           /\ Len(events'[w]) > Len(events[w])
           /\ \E k \in DOMAIN NewEvents(w) : NewEvents(w)[k].stage = "var_saved")
          => /\ PromptId(RawName(Head(matches[w]))) \in DOMAIN store'
             /\ store' = Saved(store, Head(matches[w]), GeneratedValues)]_vars

\* C26: the frame "Unknown error" is written only when the worker's task is
\* done and both holders are empty.
UnknownErrorOnlyAfterWorkerEnded ==
    [][\A w \in Workers :
          (/\ Len(frames'[w]) = Len(frames[w]) + 1
           /\ frames'[w][Len(frames'[w])].kind = "terminal"
           /\ frames'[w][Len(frames'[w])].message = "Unknown error")
          => /\ task_done[w]
             /\ result_holder[w] = <<>>
             /\ error_holder[w] = <<>>]_vars

\* C27: in a run that nothing interferes with, the text engine is loaded at
\* most once and the image engine is loaded at most once, and no text engine
\* call comes after the image engine was loaded: residency goes from text to
\* image at most once, whatever the count.
EnginesLoadedOncePerRun ==
    \A w \in Workers :
        /\ loads[w].text <= 1
        /\ loads[w].image <= 1
        /\ InTextEngineCall(w) => loads[w].image = 0

\* a batch of two images used the text engine and the image engine, each
\* loaded once
BatchLoadedEachEngineOnce ==
    /\ Returned(MainWorker)
    /\ request[MainWorker].count = 2
    /\ Len(result[MainWorker].images) = 2
    /\ loads[MainWorker] = [text |-> 1, image |-> 1]

\* C28: at every moment of a run images and seeds_used have the same length
\* and seeds_used[k] is the seed generate_image was called with for
\* images[k]; a step that records a failed synthesis changes neither list.
SeedsAlignedWithImages ==
    /\ [](\A w \in Workers :
            /\ Len(result[w].images) = Len(result[w].seeds_used)
            /\ \A k \in DOMAIN result[w].images :
                  result[w].seeds_used[k] = result[w].images[k].seed)
    /\ [][\A w \in Workers :
            Len(result'[w].errors) > Len(result[w].errors) =>
                /\ result'[w].images = result[w].images
                /\ result'[w].seeds_used = result[w].seeds_used]_vars

\* the first image of a batch of two failed and the second was produced with
\* a random seed, which is the one recorded
RandomSeedOfSecondImageRecorded ==
    /\ Returned(MainWorker)
    /\ request[MainWorker].seed = None
    /\ Len(result[MainWorker].errors) = 1
    /\ Len(result[MainWorker].images) = 1
    /\ result[MainWorker].images[1].index = 2
    /\ result[MainWorker].seeds_used = <<result[MainWorker].images[1].seed>>

\* C29: for every count in 1..100 the progress values of a run never
\* decrease from one event to the next and lie in 5..100.
ProgressNonDecreasing ==
    /\ meter.last <= meter.pct
    /\ meter.pct \in 5..100

\* C30: the terminal frame of a stream is complete whenever generate()
\* returned a result, whatever its success flag, and it is error only when
\* the worker left an error or ended without a result.
TerminalCompleteIffResult ==
    \A w \in Workers :
        \A k \in TerminalFrames(w) :
            /\ result_holder[w] # <<>> => frames[w][k].stage = "complete"
            /\ frames[w][k].stage = "error" =>
                  /\ result_holder[w] = <<>>
                  /\ task_done[w]

\* a run that failed (nothing could be loaded from the library, or its one
\* image failed) was answered with a complete frame
FailedRunAnsweredComplete ==
    /\ cpc[MainWorker] = "closed"
    /\ result_holder[MainWorker] # <<>>
    /\ ~Head(result_holder[MainWorker]).success
    /\ Head(result_holder[MainWorker]).errors # <<>>
    /\ frames[MainWorker][Len(frames[MainWorker])].stage = "complete"

====
